---- MODULE Spec2Model ----
(***************************************************************************)
(* impact-radar: the code-graph builder (graphParser.js), the blast-radius *)
(* traversal (impactAnalysis.js), the caller-safety analyzer               *)
(* (callerSafetyScanner.js) and the part of run() that drives them         *)
(* (impactRadar.js).                                                       *)
(*                                                                         *)
(* A node id is the sequence of the pieces that id.split('::') yields:     *)
(* "a.js::foo" is <<"a.js", "foo">>, the bare name "foo" is <<"foo">>.     *)
(* Pieces hold no ':' so the rendering is one-to-one.                      *)
(***************************************************************************)
EXTENDS Integers, Sequences, FiniteSets, TLC

VARIABLES
    project,    \* the file system: [exists, files (relative path -> content), mode]
    argv,       \* run: the command line, [target, include_caller_safety_scan]
    remaining,  \* parseToGraph: the collected files the top-level loop has not reached
    processedFiles, \* parseToGraph: processedFiles
    graph,      \* the Code Graph: [nodes, keys (of nodes, in insertion order), edges, metadata]
    targetId,   \* calculateBlastRadius: the targetId argument
    adj,        \* calculateBlastRadius: the reverse adjacency Map
    queue,      \* calculateBlastRadius: the BFS queue
    visited,    \* calculateBlastRadius: the visited Set
    impacts,    \* calculateBlastRadius: the Impact List being built
    scanIn,     \* scanCallerSafety: the file (as the file system holds it) and the target name
    safetyAnalyses, \* scanCallerSafety: the list returned
    scanCount,  \* scanCallerSafety: call expressions visited so far
    flagsIn,    \* calculateSafetyProbabilities: the safetyFlags argument
    probOut,    \* calculateSafetyProbabilities: the value returned
    callerSafetyAnalysisResults, \* run: the Safety Records of all scanned files
    allImpacts, \* run: the Impact List with its caller_safety_details
    narration,  \* run: what became of the narrative generator ("none" before that step)
    aiExplanation, \* run: aiExplanation
    finalOutput, \* run: finalOutput
    pc          \* position of the running function

brVars == <<targetId, adj, queue, visited, impacts>>
scanVars == <<scanIn, safetyAnalyses, scanCount>>
calcVars == <<flagsIn, probOut>>
reportVars == <<narration, aiExplanation, finalOutput>>
runVars == <<callerSafetyAnalysisResults, allImpacts, reportVars>>
parseVars == <<project, argv, remaining, processedFiles>>
vars == <<parseVars, graph, brVars, scanVars, calcVars, runVars, pc>>

----------------------------------------------------------------------------
(* Bounds of the model *)

\* Largest number of edges of a graph handed directly to calculateBlastRadius.
MaxEdges == 3

\* Largest number of call expressions of a file handed directly to scanCallerSafety.
MaxCalls == 2

\* Largest number of constructs (try, function, if) enclosing a call site's statement.
MaxNest == 2

\* The most files a project holds.
MaxFiles == 3

----------------------------------------------------------------------------
(* Values *)

\* null / undefined as an edge's `to`
NullId == <<>>

Range(s) == { s[i] : i \in DOMAIN s }

\* id.includes('::')
HasSep(id) == Len(id) > 1

\* id.includes('::') ? id.split('::')[1] : id
ShortName(id) == IF HasSep(id) THEN <<id[2]>> ELSE id

\* Set.prototype.add on an insertion-ordered Set
SetAdd(s, x) == IF x \in Range(s) THEN s ELSE Append(s, x)

\* if (!m.has(k)) m.set(k, new Set()); m.get(k).add(v)
MapAdd(m, k, v) ==
    IF k \in DOMAIN m THEN [m EXCEPT ![k] = SetAdd(@, v)]
    ELSE m @@ (k :> <<v>>)

EmptyMap == [k \in {} |-> <<>>]

\* graph.metadata as parseToGraph creates it.
NoMetadata ==
    [ unresolved_files |-> 0, total_files |-> 0, total_imports |-> 0, resolved_imports |-> 0,
      max_depth_detected |-> 0, indirect_nodes_found |-> 0, analysis_limit_reached |-> FALSE ]

----------------------------------------------------------------------------
(* impactAnalysis.js: calculateBlastRadius *)

\* AdjAddEdge without the test of the edge type: structural edges are registered too.
AdjAddEdgeAnyType(m, edge) ==
    IF edge.to = NullId THEN m
    ELSE LET m1 == MapAdd(m, edge.to, edge.from)
             shortName == ShortName(edge.to)
         IN  IF shortName # edge.to THEN MapAdd(m1, shortName, edge.from) ELSE m1

\* The body of graph.edges.forEach(edge => ...), on one edge.
AdjAddEdge(m, edge) ==
    IF edge.type = "structural" THEN m
    ELSE IF edge.to = NullId THEN m
    ELSE LET m1 == MapAdd(m, edge.to, edge.from)
             shortName == ShortName(edge.to)
         IN  IF shortName # edge.to THEN MapAdd(m1, shortName, edge.from) ELSE m1

RECURSIVE AdjFold(_, _, _)
AdjFold(m, edges, i) ==
    IF i > Len(edges) THEN m ELSE AdjFold(AdjAddEdge(m, edges[i]), edges, i + 1)

\* The reverse adjacency Map after the forEach over graph.edges.
BuildAdj(edges) == AdjFold(EmptyMap, edges, 1)

RECURSIVE AddAll(_, _, _)
AddAll(s, t, i) == IF i > Len(t) THEN s ELSE AddAll(SetAdd(s, t[i]), t, i + 1)

\* Dependents that looks up the full id only.
DependentsFullIdOnly(m, id) ==
    IF id \in DOMAIN m THEN AddAll(<<>>, m[id], 1) ELSE <<>>

\* Dependents whose short id is the piece before the first "::" (split('::')[0]).
DependentsByFirstPiece(m, id) ==
    LET d1 == IF id \in DOMAIN m THEN AddAll(<<>>, m[id], 1) ELSE <<>>
        shortId == IF HasSep(id) THEN <<id[1]>> ELSE id
    IN  IF shortId # id /\ shortId \in DOMAIN m THEN AddAll(d1, m[shortId], 1) ELSE d1

\* Dependents whose short id, for an id without "::", is the word before its first space.
DependentsByMethodWord(m, id) ==
    LET d1 == IF id \in DOMAIN m THEN AddAll(<<>>, m[id], 1) ELSE <<>>
        shortId == CASE HasSep(id) -> <<id[2]>>
                     [] id = <<"GET /users">> -> <<"GET">>
                     [] id = <<"POST /users">> -> <<"POST">>
                     [] id = <<"PUT /users">> -> <<"PUT">>
                     [] OTHER -> id
    IN  IF shortId # id /\ shortId \in DOMAIN m THEN AddAll(d1, m[shortId], 1) ELSE d1

\* The `dependents` Set of one queue entry: those under the full id, then those
\* under the short id.
Dependents(m, id) ==
    LET d1 == IF id \in DOMAIN m THEN AddAll(<<>>, m[id], 1) ELSE <<>>
        shortId == ShortName(id)
    IN  IF shortId # id /\ shortId \in DOMAIN m THEN AddAll(d1, m[shortId], 1) ELSE d1

\* ImpactOf whose chain holds the target and the dependent only.
ImpactOfChainFromTarget(nodes, depId, depth, chain) ==
    LET known == depId \in DOMAIN nodes
    IN  [ id    |-> depId,
          type  |-> IF known THEN nodes[depId].type ELSE "unresolved",
          zone  |-> IF known THEN nodes[depId].zone ELSE "External/Unresolved",
          depth |-> depth + 1,
          chain |-> << chain[1], depId >>,
          file  |-> IF known /\ nodes[depId].file # "" THEN nodes[depId].file ELSE "N/A",
          name  |-> IF known /\ nodes[depId].name # "" THEN <<nodes[depId].name>> ELSE depId ]

\* ImpactOf that reports the depth of the entry it was found from.
ImpactOfParentDepth(nodes, depId, depth, chain) ==
    LET known == depId \in DOMAIN nodes
    IN  [ id    |-> depId,
          type  |-> IF known THEN nodes[depId].type ELSE "unresolved",
          zone  |-> IF known THEN nodes[depId].zone ELSE "External/Unresolved",
          depth |-> depth,
          chain |-> Append(chain, depId),
          file  |-> IF known /\ nodes[depId].file # "" THEN nodes[depId].file ELSE "N/A",
          name  |-> IF known /\ nodes[depId].name # "" THEN <<nodes[depId].name>> ELSE depId ]

\* The Impact record pushed for depId, found from an entry of the given depth and chain.
ImpactOf(nodes, depId, depth, chain) ==
    LET known == depId \in DOMAIN nodes
    IN  [ id    |-> depId,
          type  |-> IF known THEN nodes[depId].type ELSE "unresolved",
          zone  |-> IF known THEN nodes[depId].zone ELSE "External/Unresolved",
          depth |-> depth + 1,
          chain |-> Append(chain, depId),
          file  |-> IF known /\ nodes[depId].file # "" THEN nodes[depId].file ELSE "N/A",
          name  |-> IF known /\ nodes[depId].name # "" THEN <<nodes[depId].name>> ELSE depId ]

\* VisitDeps without visited.add(depId): a dependent is reported each time it is met.
RECURSIVE VisitDepsNoMark(_, _, _, _, _, _)
VisitDepsNoMark(st, nodes, deps, i, depth, chain) ==
    IF i > Len(deps) THEN st
    ELSE LET depId == deps[i]
             next == IF depId \in st.visited THEN st
                     ELSE [ visited |-> st.visited,
                            impacts |-> Append(st.impacts, ImpactOf(nodes, depId, depth, chain)),
                            queue   |-> Append(st.queue,
                                          [id |-> depId, depth |-> depth + 1,
                                           chain |-> Append(chain, depId)]) ]
         IN  VisitDepsNoMark(next, nodes, deps, i + 1, depth, chain)

\* for (const depId of dependents) { if (!visited.has(depId)) ... }
\* st = [queue, visited, impacts]
RECURSIVE VisitDeps(_, _, _, _, _, _)
VisitDeps(st, nodes, deps, i, depth, chain) ==
    IF i > Len(deps) THEN st
    ELSE LET depId == deps[i]
             next == IF depId \in st.visited THEN st
                     ELSE [ visited |-> st.visited \cup {depId},
                            impacts |-> Append(st.impacts, ImpactOf(nodes, depId, depth, chain)),
                            queue   |-> Append(st.queue,
                                          [id |-> depId, depth |-> depth + 1,
                                           chain |-> Append(chain, depId)]) ]
         IN  VisitDeps(next, nodes, deps, i + 1, depth, chain)

\* One iteration of while (queue.length > 0): queue.shift() and the for loop.
LoopBody(st, nodes, m) ==
    LET cur == Head(st.queue)
        popped == [st EXCEPT !.queue = Tail(st.queue)]
    IN  VisitDeps(popped, nodes, Dependents(m, cur.id), 1, cur.depth, cur.chain)

\* LoopInit without visited.add(targetId).
LoopInitNoSeed(target) ==
    [ queue   |-> << [id |-> target, depth |-> 0, chain |-> <<target>>] >>,
      visited |-> {},
      impacts |-> <<>> ]

\* The state before the while loop: lines 2-4 and 36.
LoopInit(target) ==
    [ queue   |-> << [id |-> target, depth |-> 0, chain |-> <<target>>] >>,
      visited |-> {target},
      impacts |-> <<>> ]

RECURSIVE RunLoop(_, _, _)
RunLoop(st, nodes, m) ==
    IF st.queue = <<>> THEN st.impacts ELSE RunLoop(LoopBody(st, nodes, m), nodes, m)

\* The Impact List calculateBlastRadius(graph, targetId) returns.
calculateBlastRadius(g, target) == RunLoop(LoopInit(target), g.nodes, BuildAdj(g.edges))

----------------------------------------------------------------------------
(* callerSafetyScanner.js: calculateSafetyProbabilities                      *)
(* Probabilities are counted in thousandths until toFixed(2), which yields   *)
(* hundredths: 85 is 0.85.  The rule-trace (breakdown) lists are left out.   *)

BaseUnguarded == 700
BaseGuarded == 100
DestructurePenalty == 200
AssumedPenalty == 150
NullCheckMitigation == 500
OptionalChainMitigation == 400
BaseNoTry == 600
BaseTry == 100
AsyncPenalty == 200
ResidualRisk == 10
One == 1000

Max(a, b) == IF a >= b THEN a ELSE b
Min(a, b) == IF a <= b THEN a ELSE b

\* parseFloat(x.toFixed(2)): x in thousandths (x >= 0), the result in hundredths.
ToFixed2(x) == (x + 5) \div 10

FlagNames ==
    { "hasTryCatch", "hasNullCheck", "isDestructuredImmediately", "assumedExists",
      "isAsyncCall", "isOptionalChaining" }

\* FullMitigation with the async flag tested the wrong way round.
FullMitigationAsyncFlipped(f) ==
    /\ f.hasNullCheck /\ ~f.isDestructuredImmediately /\ ~f.assumedExists
    /\ f.isAsyncCall /\ f.hasTryCatch /\ f.isOptionalChaining

\* The full-mitigation test of line 93.
FullMitigation(f) ==
    /\ f.hasNullCheck /\ ~f.isDestructuredImmediately /\ ~f.assumedExists
    /\ ~f.isAsyncCall /\ f.hasTryCatch /\ f.isOptionalChaining

\* The near-full-mitigation test of line 98 (reached when line 93 fails).
NearFullMitigation(f) ==
    /\ f.hasNullCheck /\ ~f.isDestructuredImmediately /\ ~f.assumedExists
    /\ ~f.isAsyncCall /\ f.hasTryCatch

\* unsafeDereferenceLikelihood after lines 45-70, in thousandths.
UnsafeRules(f) ==
    LET unguarded == ~f.hasNullCheck /\ ~f.isOptionalChaining
        u0 == IF unguarded THEN BaseUnguarded ELSE BaseGuarded
        u1 == IF f.isDestructuredImmediately /\ unguarded THEN u0 + DestructurePenalty ELSE u0
        u2 == IF f.assumedExists /\ unguarded THEN u1 + AssumedPenalty ELSE u1
        u3 == IF f.hasNullCheck THEN Max(0, u2 - NullCheckMitigation) ELSE u2
    IN  IF f.isOptionalChaining THEN Max(0, u3 - OptionalChainMitigation) ELSE u3

\* UnhandledRules without the async penalty of lines 82-85.
UnhandledRulesNoAsyncPenalty(f) ==
    IF ~f.hasTryCatch THEN BaseNoTry ELSE BaseTry

\* unhandledErrorProbability after lines 74-85, in thousandths.
UnhandledRules(f) ==
    LET e0 == IF ~f.hasTryCatch THEN BaseNoTry ELSE BaseTry
    IN  IF f.isAsyncCall /\ ~f.hasTryCatch THEN e0 + AsyncPenalty ELSE e0

\* Math.max(0, Math.min(1, x))
Clamp01(x) == Max(0, Min(One, x))

\* The override of lines 93-104 on a clamped value.
Override(f, x) ==
    IF FullMitigation(f) THEN 0
    ELSE IF NearFullMitigation(f) THEN Min(x, ResidualRisk)
    ELSE x

\* The two probabilities calculateSafetyProbabilities returns, in hundredths.
calculateSafetyProbabilities(f) ==
    [ unsafeDereferenceLikelihood |-> ToFixed2(Override(f, Clamp01(UnsafeRules(f)))),
      unhandledErrorProbability   |-> ToFixed2(Override(f, Clamp01(UnhandledRules(f)))) ]

----------------------------------------------------------------------------
(* Syntax trees, as scanCallerSafety reads them: a call expression and the   *)
(* chain of its ancestors, the parent first and the Program last.            *)

\* An expression the scanner compares by identity or by name.
Expr(type, name) == [type |-> type, name |-> name]
NoExpr == Expr("None", "")
TheCall == Expr("CallExpression", "<the call>")      \* originalCallExpressionNode
TheAwait == Expr("AwaitExpression", "<await the call>")
NullLit == Expr("NullLiteral", "")
Ident(name) == Expr("Identifier", name)
OtherExpr == Expr("Other", "")

\* The test of an if-statement or ternary: a leaf expression, or an operator node.
LeafTest(e) == [type |-> e.type, operator |-> "", left |-> NoExpr, right |-> NoExpr, name |-> e.name]
OpTest(type, op, l, r) == [type |-> type, operator |-> op, left |-> l, right |-> r, name |-> ""]
NoTest == LeafTest(NoExpr)

\* An ancestor node: its type and the fields the scanner reads.
Node(type) == [type |-> type, async |-> FALSE, id |-> NoExpr, init |-> NoExpr, test |-> NoTest]
FnNode(type, isAsync) == [Node(type) EXCEPT !.async = isAsync]
DeclNode(id, init) == [Node("VariableDeclarator") EXCEPT !.id = id, !.init = init]
TestNode(type, test) == [Node(type) EXCEPT !.test = test]

FunctionTypes ==
    { "FunctionDeclaration", "ArrowFunctionExpression", "FunctionExpression", "ObjectMethod" }

----------------------------------------------------------------------------
(* callerSafetyScanner.js: scanCallerSafety, the CallExpression visitor *)

\* isTargetExpression(expr) of lines 224-230; resultName = "" stands for null.
isTargetExpression(e, resultName, expressionToTrack) ==
    \/ resultName # "" /\ e.type = "Identifier" /\ e.name = resultName
    \/ e = TheCall
    \/ e = expressionToTrack /\ e.type = "AwaitExpression"

IsNullish(e) == e.type = "NullLiteral" \/ (e.type = "Identifier" /\ e.name = "undefined")

\* Lines 233-256: whether ancestor n sets hasNullCheck.
IsNullGuard(n, resultName, expressionToTrack) ==
    /\ n.type \in {"IfStatement", "ConditionalExpression"}
    /\ LET tn == n.test
           asExpr == Expr(tn.type, tn.name)
       IN  IF tn.type = "BinaryExpression"
           THEN \/ IsNullish(tn.right) /\ isTargetExpression(tn.left, resultName, expressionToTrack)
                \/ IsNullish(tn.left) /\ isTargetExpression(tn.right, resultName, expressionToTrack)
           ELSE IF tn.type = "UnaryExpression" /\ tn.operator = "!"
                   /\ isTargetExpression(tn.left, resultName, expressionToTrack)
           THEN TRUE
           ELSE IF tn.type = "LogicalExpression" /\ tn.operator = "&&"
                   /\ isTargetExpression(tn.left, resultName, expressionToTrack)
           THEN TRUE
           ELSE isTargetExpression(asExpr, resultName, expressionToTrack)

\* Lines 209-261: the upward walk from anc[i]; w = [hasTryCatch, isAsyncCall, hasNullCheck].
RECURSIVE WalkUp(_, _, _, _, _)
WalkUp(w, anc, i, resultName, expressionToTrack) ==
    IF i > Len(anc) THEN w
    ELSE LET n == anc[i]
             w1 == [ hasTryCatch  |-> w.hasTryCatch \/ n.type = "TryStatement",
                     isAsyncCall  |-> w.isAsyncCall \/ (n.type \in FunctionTypes /\ n.async),
                     hasNullCheck |-> w.hasNullCheck
                                      \/ IsNullGuard(n, resultName, expressionToTrack) ]
         IN  WalkUp(w1, anc, i + 1, resultName, expressionToTrack)

\* CallSiteFlags without line 175: optional chaining does not set hasNullCheck.
CallSiteFlagsNoImplicitGuard(anc) ==
    LET parent == anc[1]
        isOptionalChaining ==
            parent.type \in {"OptionalMemberExpression", "OptionalCallExpression"}
        awaited == parent.type = "AwaitExpression"
        expressionToTrack == IF awaited THEN TheAwait ELSE TheCall
        holder == IF awaited THEN anc[2] ELSE anc[1]
        bound == holder.type = "VariableDeclarator" /\ holder.init = expressionToTrack
        resultName == IF bound /\ holder.id.type = "Identifier" THEN holder.id.name ELSE ""
        isDestructuredImmediately ==
            bound /\ holder.id.type \in {"ObjectPattern", "ArrayPattern"}
        w == WalkUp([hasTryCatch |-> FALSE, isAsyncCall |-> FALSE,
                     hasNullCheck |-> FALSE],
                    anc, IF awaited THEN 2 ELSE 1, resultName, expressionToTrack)
    IN  [ hasTryCatch |-> w.hasTryCatch,
          hasNullCheck |-> w.hasNullCheck,
          isDestructuredImmediately |-> isDestructuredImmediately,
          assumedExists |-> ~w.hasNullCheck /\ ~w.hasTryCatch
                            /\ ~isDestructuredImmediately /\ ~isOptionalChaining,
          isAsyncCall |-> w.isAsyncCall,
          isOptionalChaining |-> isOptionalChaining ]

\* CallSiteFlags with line 264 leaving hasTryCatch out of assumedExists.
CallSiteFlagsAssumedIgnoresTry(anc) ==
    LET parent == anc[1]
        isOptionalChaining ==
            parent.type \in {"OptionalMemberExpression", "OptionalCallExpression"}
        awaited == parent.type = "AwaitExpression"
        expressionToTrack == IF awaited THEN TheAwait ELSE TheCall
        holder == IF awaited THEN anc[2] ELSE anc[1]
        bound == holder.type = "VariableDeclarator" /\ holder.init = expressionToTrack
        resultName == IF bound /\ holder.id.type = "Identifier" THEN holder.id.name ELSE ""
        isDestructuredImmediately ==
            bound /\ holder.id.type \in {"ObjectPattern", "ArrayPattern"}
        w == WalkUp([hasTryCatch |-> FALSE, isAsyncCall |-> FALSE,
                     hasNullCheck |-> isOptionalChaining],
                    anc, IF awaited THEN 2 ELSE 1, resultName, expressionToTrack)
    IN  [ hasTryCatch |-> w.hasTryCatch,
          hasNullCheck |-> w.hasNullCheck,
          isDestructuredImmediately |-> isDestructuredImmediately,
          assumedExists |-> ~w.hasNullCheck
                            /\ ~isDestructuredImmediately /\ ~isOptionalChaining,
          isAsyncCall |-> w.isAsyncCall,
          isOptionalChaining |-> isOptionalChaining ]

\* CallSiteFlags with the test of line 264 leaving out isDestructuredImmediately.
CallSiteFlagsAssumedIgnoresDestructuring(anc) ==
    LET parent == anc[1]
        isOptionalChaining ==
            parent.type \in {"OptionalMemberExpression", "OptionalCallExpression"}
        awaited == parent.type = "AwaitExpression"
        expressionToTrack == IF awaited THEN TheAwait ELSE TheCall
        holder == IF awaited THEN anc[2] ELSE anc[1]
        bound == holder.type = "VariableDeclarator" /\ holder.init = expressionToTrack
        resultName == IF bound /\ holder.id.type = "Identifier" THEN holder.id.name ELSE ""
        isDestructuredImmediately ==
            bound /\ holder.id.type \in {"ObjectPattern", "ArrayPattern"}
        w == WalkUp([hasTryCatch |-> FALSE, isAsyncCall |-> FALSE,
                     hasNullCheck |-> isOptionalChaining],
                    anc, IF awaited THEN 2 ELSE 1, resultName, expressionToTrack)
    IN  [ hasTryCatch |-> w.hasTryCatch,
          hasNullCheck |-> w.hasNullCheck,
          isDestructuredImmediately |-> isDestructuredImmediately,
          assumedExists |-> ~w.hasNullCheck /\ ~w.hasTryCatch /\ ~isOptionalChaining,
          isAsyncCall |-> w.isAsyncCall,
          isOptionalChaining |-> isOptionalChaining ]

\* Lines 161-266: the six flags of a call site with ancestor chain anc.
CallSiteFlags(anc) ==
    LET parent == anc[1]
        isOptionalChaining ==
            parent.type \in {"OptionalMemberExpression", "OptionalCallExpression"}
        awaited == parent.type = "AwaitExpression"
        expressionToTrack == IF awaited THEN TheAwait ELSE TheCall
        holder == IF awaited THEN anc[2] ELSE anc[1]
        bound == holder.type = "VariableDeclarator" /\ holder.init = expressionToTrack
        resultName == IF bound /\ holder.id.type = "Identifier" THEN holder.id.name ELSE ""
        isDestructuredImmediately ==
            bound /\ holder.id.type \in {"ObjectPattern", "ArrayPattern"}
        w == WalkUp([hasTryCatch |-> FALSE, isAsyncCall |-> FALSE,
                     hasNullCheck |-> isOptionalChaining],
                    anc, IF awaited THEN 2 ELSE 1, resultName, expressionToTrack)
    IN  [ hasTryCatch |-> w.hasTryCatch,
          hasNullCheck |-> w.hasNullCheck,
          isDestructuredImmediately |-> isDestructuredImmediately,
          assumedExists |-> ~w.hasNullCheck /\ ~w.hasTryCatch
                            /\ ~isDestructuredImmediately /\ ~isOptionalChaining,
          isAsyncCall |-> w.isAsyncCall,
          isOptionalChaining |-> isOptionalChaining ]

\* Lines 277-292: the Safety Record pushed for a matching call (line, column and the
\* breakdown lists left out).
SafetyRecord(file, calleeName, anc) ==
    LET f == CallSiteFlags(anc)
        pr == calculateSafetyProbabilities(f)
    IN  [ file |-> file,
          callee |-> calleeName,
          hasTryCatch |-> f.hasTryCatch,
          hasNullCheck |-> f.hasNullCheck,
          isDestructuredImmediately |-> f.isDestructuredImmediately,
          assumedExists |-> f.assumedExists,
          isAsyncCall |-> f.isAsyncCall,
          isOptionalChaining |-> f.isOptionalChaining,
          unsafeDereferenceLikelihood |-> pr.unsafeDereferenceLikelihood,
          unhandledErrorProbability |-> pr.unhandledErrorProbability ]

\* Lines 151-294: the visitor on one call expression [callee, anc].
VisitCall(analyses, file, call, targetFunctionName) ==
    IF call.callee = targetFunctionName
    THEN Append(analyses, SafetyRecord(file, call.callee, call.anc))
    ELSE analyses

\* Lines 126-130: the record returned when the file does not exist.
NotFoundRecord(file, targetFunctionName) ==
    [ file |-> file, targetFunctionName |-> targetFunctionName,
      analysis |-> "File not found for safety scan." ]

\* Lines 298-301: the record pushed by the catch block.
ScanErrorRecord(file) == [ file |-> file, analysis |-> "Error during safety scan" ]

----------------------------------------------------------------------------
(* Source files.  A file's content is [parse, items]: parse is "ok", "error" *)
(* (parser.parse throws) or "noscript" (a .svelte file without script         *)
(* content); items are its top-level constructs in source order:              *)
(*   [t |-> "import", kind, source]            import / re-export with source *)
(*   [t |-> "fn", type, naming, name, async, body]    a function-like node    *)
(*   [t |-> "call", callee, site]              a call expression              *)
(* and a function's body holds calls and nested functions.                    *)

ImportItem(kind, source) == [t |-> "import", kind |-> kind, source |-> source]
FnItem(type, naming, name, isAsync, body) ==
    [t |-> "fn", type |-> type, naming |-> naming, name |-> name, async |-> isAsync,
     body |-> body]
CallItem(callee, site) == [t |-> "call", callee |-> callee, site |-> site]
Site(ctx, awaited, outer) == [ctx |-> ctx, awaited |-> awaited, outer |-> outer]
Content(parse, items) == [parse |-> parse, items |-> items]

\* The relative paths of the files a project may hold.
Paths ==
    { "a.js", "b.js", "c.js", "d.svelte", "src/routes/users/+server.js",
      "src/routes/users/+page.js" }

\* The project root, an absolute path.
ProjectRoot == "/p"

\* path.join(projectPath, relPath)
AbsPath(rel) == <<ProjectRoot, rel>>

\* getRouteInfo on the paths of Paths; "" stands for null.
getRouteInfo(path) ==
    IF path \in {"src/routes/users/+server.js", "src/routes/users/+page.js"}
    THEN "/users" ELSE ""

\* getArchitecturalZone on the paths of Paths.
getArchitecturalZone(path) ==
    IF path \in {"src/routes/users/+server.js", "src/routes/users/+page.js"}
    THEN "API Layer / Route Handlers"
    ELSE "Unknown Zone"

\* String.prototype.toUpperCase on the function names of the model.
ToUpperCase(name) ==
    CASE name = "get" -> "GET"
      [] name = "post" -> "POST"
      [] name = "put" -> "PUT"
      [] OTHER -> name

HttpMethods == { "GET", "POST", "PUT", "DELETE", "PATCH", "HEAD", "OPTIONS" }

\* `${name.toUpperCase()} ${route}` as one piece, for the names and routes of the model.
ApiIdString(upperName, route) ==
    CASE upperName = "GET" /\ route = "/users" -> "GET /users"
      [] upperName = "POST" /\ route = "/users" -> "POST /users"
      [] upperName = "PUT" /\ route = "/users" -> "PUT /users"
      [] OTHER -> "<api>"

\* piece.split(' ') for the pieces of the model that hold a space.
SplitSpace(piece) ==
    CASE piece = "GET /users" -> <<"GET", "/users">>
      [] piece = "POST /users" -> <<"POST", "/users">>
      [] piece = "PUT /users" -> <<"PUT", "/users">>
      [] OTHER -> <<piece>>

\* The project files resolveImportPath probes, in its order, for a specifier written in
\* the importer: the paths of Paths among potentialPath + ext, potentialPath and
\* potentialPath/index + ext.  A bare package name is probed nowhere.
ImportCandidates(importer, source) ==
    LET inRoot == importer \in {"a.js", "b.js", "c.js", "d.svelte"}
    IN  CASE inRoot /\ source \in {"./a.js", "./a"} -> <<"a.js">>
          [] inRoot /\ source \in {"./c.js", "./c"} -> <<"c.js">>
          [] inRoot /\ source \in {"./b.js", "./b"} -> <<"b.js">>
          [] ~inRoot /\ source \in {"../../../a.js", "../../../a"} -> <<"a.js">>
          [] source = "src/routes/users/+server" -> <<"src/routes/users/+server.js">>
          [] OTHER -> <<>>

\* resolveImportPath: the first probed path that is a project file; "" stands for null.
resolveImportPath(importer, source, allProjectFiles) ==
    LET c == ImportCandidates(importer, source)
        hits == { i \in DOMAIN c : c[i] \in allProjectFiles }
    IN  IF hits = {} THEN "" ELSE c[CHOOSE i \in hits : \A j \in hits : i <= j]

----------------------------------------------------------------------------
(* graphParser.js: parseToGraph and processFile.                           *)
(* g = [nodes, keys, edges, metadata, processed]: graph.nodes with its keys *)
(* in insertion order, graph.edges, graph.metadata and processedFiles.      *)

\* graph.nodes[id] = node
PutNode(g, id, node) ==
    [g EXCEPT !.nodes = IF id \in DOMAIN g.nodes THEN [g.nodes EXCEPT ![id] = node]
                        ELSE g.nodes @@ (id :> node),
              !.keys = SetAdd(g.keys, id)]

PushEdge(g, edge) == [g EXCEPT !.edges = Append(g.edges, edge)]

ModuleNode(relPath) ==
    [type |-> "module", name |-> "", file |-> "", route |-> "",
     zone |-> getArchitecturalZone(relPath), isAsync |-> FALSE]

\* Lines 288-296: the name the first naming rules give; "" stands for null.
\* (An assignment target names the function only in the else branch of line 334.)
FirstName(fn) == IF fn.naming \in {"decl", "var", "prop", "method"} THEN fn.name ELSE ""

\* Lines 305-309
IsApi(fn, relPath) ==
    /\ FirstName(fn) # ""
    /\ getRouteInfo(relPath) # ""
    /\ ToUpperCase(FirstName(fn)) \in HttpMethods

\* Lines 311-351: the node id of a function-like node; NullId when it is dropped.
FnNodeId(fn, relPath) ==
    IF IsApi(fn, relPath)
    THEN << ApiIdString(ToUpperCase(fn.name), getRouteInfo(relPath)) >>
    ELSE IF FirstName(fn) # "" THEN <<relPath, fn.name>>
    ELSE IF fn.naming = "assign" THEN <<relPath, fn.name>>
    ELSE NullId

\* Lines 313-347: the node record stored under that id.
FnNodeRecord(fn, relPath) ==
    IF IsApi(fn, relPath)
    THEN [type |-> "api", name |-> ToUpperCase(fn.name), file |-> relPath,
          route |-> getRouteInfo(relPath), zone |-> getArchitecturalZone(relPath),
          isAsync |-> fn.async]
    ELSE [type |-> "function", name |-> fn.name, file |-> relPath, route |-> "",
          zone |-> getArchitecturalZone(relPath), isAsync |-> fn.async]

\* CallsIn that does not descend into nested functions.
CallsInOwnBodyOnly(body) == SelectSeq(body, LAMBDA it : it.t = "call")

\* The call expressions inside a body, nested functions included, in traversal order.
RECURSIVE CallsIn(_)
CallsIn(body) ==
    IF body = <<>> THEN <<>>
    ELSE LET it == Head(body)
         IN  (IF it.t = "call" THEN <<it>> ELSE IF it.t = "fn" THEN CallsIn(it.body) ELSE <<>>)
             \o CallsIn(Tail(body))

\* Lines 355-371: p.traverse pushes a call edge for every call with a simple callee
\* name ("" stands for a callee that is neither an identifier nor a member property).
RECURSIVE PushCallEdges(_, _, _, _)
PushCallEdges(g, nodeId, calls, i) ==
    IF i > Len(calls) THEN g
    ELSE PushCallEdges(
            IF calls[i].callee # ""
            THEN PushEdge(g, [from |-> nodeId, to |-> <<calls[i].callee>>,
                              type |-> "dependency", kind |-> "call"])
            ELSE g,
            nodeId, calls, i + 1)

\* VisitFunction without the structural edge of line 353.
VisitFunctionNoStructuralEdge(g, relPath, fn) ==
    LET nodeId == FnNodeId(fn, relPath)
    IN  IF nodeId = NullId THEN g
        ELSE PushCallEdges(PutNode(g, nodeId, FnNodeRecord(fn, relPath)),
                           nodeId, CallsIn(fn.body), 1)

\* Lines 280-372: the function visitor on one function-like node (not its children).
VisitFunction(g, relPath, fn) ==
    LET nodeId == FnNodeId(fn, relPath)
    IN  IF nodeId = NullId THEN g
        ELSE PushCallEdges(
                PushEdge(PutNode(g, nodeId, FnNodeRecord(fn, relPath)),
                         [from |-> <<relPath>>, to |-> nodeId, type |-> "structural",
                          kind |-> ""]),
                nodeId, CallsIn(fn.body), 1)

RECURSIVE processFile(_, _, _, _)
RECURSIVE VisitItems(_, _, _, _, _)

\* VisitImport recording no edge for a specifier that does not resolve.
VisitImportDropsExternal(g, relPath, imp, files, mode) ==
    LET g1 == [g EXCEPT !.metadata.total_imports = @ + 1]
        resolved == resolveImportPath(relPath, imp.source, DOMAIN files)
    IN  IF resolved # ""
        THEN LET g2 == PushEdge([g1 EXCEPT !.metadata.resolved_imports = @ + 1],
                                [from |-> <<relPath>>, to |-> <<resolved>>,
                                 type |-> "dependency", kind |-> imp.kind])
             IN  IF mode = "FULL" /\ resolved \notin g2.processed
                 THEN processFile(g2, resolved, files, mode)
                 ELSE g2
        ELSE g1

\* Lines 220-279: the import / re-export visitors on one statement with a source.
VisitImport(g, relPath, imp, files, mode) ==
    LET g1 == [g EXCEPT !.metadata.total_imports = @ + 1]
        resolved == resolveImportPath(relPath, imp.source, DOMAIN files)
    IN  IF resolved # ""
        THEN LET g2 == PushEdge([g1 EXCEPT !.metadata.resolved_imports = @ + 1],
                                [from |-> <<relPath>>, to |-> <<resolved>>,
                                 type |-> "dependency", kind |-> imp.kind])
             IN  IF mode = "FULL" /\ resolved \notin g2.processed
                 THEN processFile(g2, resolved, files, mode)
                 ELSE g2
        ELSE PushEdge(g1, [from |-> <<relPath>>, to |-> <<imp.source>>,
                           type |-> "dependency",
                           kind |-> CASE imp.kind = "import" -> "import_external"
                                      [] imp.kind = "re_export" -> "re_export_external"
                                      [] OTHER -> "barrel_export_external"])

\* babelTraverse over the constructs of a file (or of a function body), in source order:
\* each node is visited, then its children.
VisitItems(g, relPath, items, files, mode) ==
    IF items = <<>> THEN g
    ELSE LET it == Head(items)
             g1 == CASE it.t = "import" -> VisitImport(g, relPath, it, files, mode)
                     [] it.t = "fn" ->
                            VisitItems(VisitFunction(g, relPath, it), relPath, it.body,
                                       files, mode)
                     [] OTHER -> g
         IN  VisitItems(g1, relPath, Tail(items), files, mode)

\* processFile without the re-entry guard of lines 190-191.
processFileNoReentryGuard(g, relPath, files, mode) ==
    LET g1 == PutNode([g EXCEPT !.processed = @ \cup {relPath},
                                !.metadata.total_files = @ + 1],
                      <<relPath>>, ModuleNode(relPath))
    IN  CASE files[relPath].parse = "noscript" -> g1
          [] files[relPath].parse = "error" ->
                 [g1 EXCEPT !.metadata.unresolved_files = @ + 1]
          [] OTHER -> VisitItems(g1, relPath, files[relPath].items, files, mode)

\* Lines 189-378: processFile(fullPath), the files it processes recursively included.
processFile(g, relPath, files, mode) ==
    IF relPath \in g.processed THEN g
    ELSE LET g1 == PutNode([g EXCEPT !.processed = @ \cup {relPath},
                                     !.metadata.total_files = @ + 1],
                           <<relPath>>, ModuleNode(relPath))
         IN  CASE files[relPath].parse = "noscript" -> g1
               [] files[relPath].parse = "error" ->
                      [g1 EXCEPT !.metadata.unresolved_files = @ + 1]
               [] OTHER -> VisitItems(g1, relPath, files[relPath].items, files, mode)

\* Lines 387-392: adjList, from each edge.from to the list of its edge.to.
RECURSIVE ForwardAdj(_, _, _)
ForwardAdj(m, edges, i) ==
    IF i > Len(edges) THEN m
    ELSE LET e == edges[i]
             m1 == IF e.from \in DOMAIN m THEN [m EXCEPT ![e.from] = Append(@, e.to)]
                   ELSE m @@ (e.from :> <<e.to>>)
         IN  ForwardAdj(m1, edges, i + 1)

\* Lines 401-410: the module nodes, in key order, each queued at depth 0.
RECURSIVE ModuleKeys(_, _)
ModuleKeys(nodes, keys) ==
    IF keys = <<>> THEN <<>>
    ELSE (IF nodes[Head(keys)].type = "module" THEN <<Head(keys)>> ELSE <<>>)
         \o ModuleKeys(nodes, Tail(keys))

\* Lines 418-426: the neighbors of one queue entry; b = [queue, visited, maxDepth, indirect].
RECURSIVE VisitNeighbors(_, _, _, _)
VisitNeighbors(b, ns, i, depth) ==
    IF i > Len(ns) THEN b
    ELSE VisitNeighbors(
            IF ns[i] \in b.visited THEN b
            ELSE [b EXCEPT !.visited = @ \cup {ns[i]},
                           !.indirect = IF depth + 1 > 1 THEN @ + 1 ELSE @,
                           !.queue = Append(@, [id |-> ns[i], depth |-> depth + 1])],
            ns, i + 1, depth)

\* Lines 412-428: the breadth-first loop of the post-pass.
RECURSIVE MetricsLoop(_, _)
MetricsLoop(b, fwd) ==
    IF b.queue = <<>> THEN b
    ELSE LET cur == Head(b.queue)
             b1 == [b EXCEPT !.queue = Tail(@), !.maxDepth = Max(@, cur.depth)]
         IN  MetricsLoop(
                IF cur.id \in DOMAIN fwd THEN VisitNeighbors(b1, fwd[cur.id], 1, cur.depth)
                ELSE b1,
                fwd)

RECURSIVE AtDepthZero(_)
AtDepthZero(ids) ==
    IF ids = <<>> THEN <<>> ELSE <<[id |-> Head(ids), depth |-> 0]>> \o AtDepthZero(Tail(ids))

\* PostPassMetadata with line 431 not testing the mode.
PostPassMetadataLimitInAnyMode(g, mode) ==
    LET roots == ModuleKeys(g.nodes, g.keys)
        b == MetricsLoop([queue |-> AtDepthZero(roots), visited |-> Range(roots),
                          maxDepth |-> 0, indirect |-> 0],
                         ForwardAdj(EmptyMap, g.edges, 1))
    IN  [g.metadata EXCEPT !.max_depth_detected = b.maxDepth,
                           !.indirect_nodes_found = b.indirect,
                           !.analysis_limit_reached = (b.maxDepth = 1)]

\* Lines 385-431: graph.metadata after the post-pass.
PostPassMetadata(g, mode) ==
    LET roots == ModuleKeys(g.nodes, g.keys)
        b == MetricsLoop([queue |-> AtDepthZero(roots), visited |-> Range(roots),
                          maxDepth |-> 0, indirect |-> 0],
                         ForwardAdj(EmptyMap, g.edges, 1))
    IN  [g.metadata EXCEPT !.max_depth_detected = b.maxDepth,
                           !.indirect_nodes_found = b.indirect,
                           !.analysis_limit_reached = (mode = "FAST" /\ b.maxDepth = 1)]

\* Lines 150-162: the graph parseToGraph starts from.
EmptyGraph == [nodes |-> EmptyMap, keys |-> <<>>, edges |-> <<>>, metadata |-> NoMetadata]

----------------------------------------------------------------------------
(* parseToGraph, one file of the top-level loop at a time *)

\* Lines 380-383: the loop over allProjectFiles reaches its next file (the directory
\* order of readdirSync is the file system's) and processFile runs on it.
ParseProcessNext ==
    /\ pc = "parse_loop"
    /\ \E f \in remaining :
          LET g == processFile([nodes |-> graph.nodes, keys |-> graph.keys,
                                edges |-> graph.edges, metadata |-> graph.metadata,
                                processed |-> processedFiles],
                               f, project.files, project.mode)
          IN  /\ graph' = [nodes |-> g.nodes, keys |-> g.keys, edges |-> g.edges,
                           metadata |-> g.metadata]
              /\ processedFiles' = g.processed
              /\ remaining' = remaining \ {f}
    /\ UNCHANGED <<project, argv, brVars, scanVars, calcVars, runVars, pc>>

\* Lines 385-433: the loop is over; the post-pass fills the metadata, the graph is returned.
ParsePostProcess ==
    /\ pc = "parse_loop"
    /\ remaining = {}
    /\ graph' = [graph EXCEPT !.metadata = PostPassMetadata(graph, project.mode)]
    /\ pc' = "parse_done"
    /\ UNCHANGED <<project, argv, remaining, processedFiles, brVars, scanVars, calcVars, runVars>>

----------------------------------------------------------------------------
(* calculateBlastRadius, run one loop iteration at a time *)

\* calculateBlastRadius, lines 2-36: the adjacency Map is built from graph.edges,
\* the queue holds the target at depth 0 and the target is marked visited.
BRStart ==
    /\ pc = "br_start"
    /\ adj' = BuildAdj(graph.edges)
    /\ queue' = LoopInit(targetId).queue
    /\ visited' = LoopInit(targetId).visited
    /\ impacts' = LoopInit(targetId).impacts
    /\ pc' = "br_loop"
    /\ UNCHANGED <<parseVars, graph, targetId, scanVars, calcVars, runVars>>

\* calculateBlastRadius, lines 38-72: one iteration of the while loop.
BRIterate ==
    /\ pc = "br_loop"
    /\ queue # <<>>
    /\ LET st == LoopBody([queue |-> queue, visited |-> visited, impacts |-> impacts],
                          graph.nodes, adj)
       IN  /\ queue' = st.queue
           /\ visited' = st.visited
           /\ impacts' = st.impacts
    /\ UNCHANGED <<parseVars, graph, targetId, adj, pc, scanVars, calcVars, runVars>>

\* calculateBlastRadius, line 73: the queue is empty, impacts is returned.
BRReturn ==
    /\ pc = "br_loop"
    /\ queue = <<>>
    /\ pc' = "br_done"
    /\ UNCHANGED <<parseVars, graph, brVars, scanVars, calcVars, runVars>>

----------------------------------------------------------------------------
(* Call sites: the ancestor chains of the syntax trees the parser builds *)

\* How the value of the (possibly awaited) call is used.
Contexts ==
    { "stmt",        \* foo();
      "member",      \* foo().x;
      "optmember",   \* foo()?.x;
      "optcall",     \* foo()?.();
      "declId",      \* const result = foo();
      "declObj",     \* const { a } = foo();
      "declArr",     \* const [a] = foo();
      "ifCall",      \* if (foo()) ...
      "ifEqNull",    \* if (foo() !== null) ...
      "ifNullEq",    \* if (null !== foo()) ...
      "ifEqUndef",   \* if (foo() !== undefined) ...
      "ifEqOther",   \* if (foo() !== x) ...
      "ifMinusNull", \* if (foo() - null) ...
      "ifNot",       \* if (!foo()) ...
      "ifAnd",       \* if (foo() && x) ...
      "ifAndRight",  \* if (x && foo()) ...
      "ternCall" }   \* foo() ? a : b;

\* What encloses the statement of the call.
Enclosures ==
    { "try",              \* try { ... } catch (e) { }
      "function",         \* function f() { ... }
      "asyncFunction",    \* async function f() { ... }
      "asyncClassMethod", \* class K { async m() { ... } }
      "ifOther",          \* if (x) { ... }
      "ifResult" }        \* if (result) { ... }

\* The ancestors from the call's parent (the await's parent when awaited) up to the
\* statement, for the (possibly awaited) value v.
ContextChain(ctx, v) ==
    CASE ctx = "stmt" -> << Node("ExpressionStatement") >>
      [] ctx = "member" -> << Node("MemberExpression"), Node("ExpressionStatement") >>
      [] ctx = "optmember" -> << Node("OptionalMemberExpression"), Node("ExpressionStatement") >>
      [] ctx = "optcall" -> << Node("OptionalCallExpression"), Node("ExpressionStatement") >>
      [] ctx = "declId" -> << DeclNode(Ident("result"), v), Node("VariableDeclaration") >>
      [] ctx = "declObj" -> << DeclNode(Expr("ObjectPattern", ""), v), Node("VariableDeclaration") >>
      [] ctx = "declArr" -> << DeclNode(Expr("ArrayPattern", ""), v), Node("VariableDeclaration") >>
      [] ctx = "ifCall" -> << TestNode("IfStatement", LeafTest(v)) >>
      [] ctx = "ifEqNull" ->
            << Node("BinaryExpression"),
               TestNode("IfStatement", OpTest("BinaryExpression", "!==", v, NullLit)) >>
      [] ctx = "ifNullEq" ->
            << Node("BinaryExpression"),
               TestNode("IfStatement", OpTest("BinaryExpression", "!==", NullLit, v)) >>
      [] ctx = "ifEqUndef" ->
            << Node("BinaryExpression"),
               TestNode("IfStatement", OpTest("BinaryExpression", "!==", v, Ident("undefined"))) >>
      [] ctx = "ifEqOther" ->
            << Node("BinaryExpression"),
               TestNode("IfStatement", OpTest("BinaryExpression", "!==", v, Ident("x"))) >>
      [] ctx = "ifMinusNull" ->
            << Node("BinaryExpression"),
               TestNode("IfStatement", OpTest("BinaryExpression", "-", v, NullLit)) >>
      [] ctx = "ifNot" ->
            << Node("UnaryExpression"),
               TestNode("IfStatement", OpTest("UnaryExpression", "!", v, NoExpr)) >>
      [] ctx = "ifAnd" ->
            << Node("LogicalExpression"),
               TestNode("IfStatement", OpTest("LogicalExpression", "&&", v, Ident("x"))) >>
      [] ctx = "ifAndRight" ->
            << Node("LogicalExpression"),
               TestNode("IfStatement", OpTest("LogicalExpression", "&&", Ident("x"), v)) >>
      [] ctx = "ternCall" ->
            << TestNode("ConditionalExpression", LeafTest(v)), Node("ExpressionStatement") >>

\* The ancestors one enclosing construct adds, innermost first.
EnclosureChain(enc) ==
    CASE enc = "try" -> << Node("BlockStatement"), Node("TryStatement") >>
      [] enc = "function" -> << Node("BlockStatement"), FnNode("FunctionDeclaration", FALSE) >>
      [] enc = "asyncFunction" -> << Node("BlockStatement"), FnNode("FunctionDeclaration", TRUE) >>
      [] enc = "asyncClassMethod" ->
            << Node("BlockStatement"), FnNode("ClassMethod", TRUE), Node("ClassBody"),
               Node("ClassDeclaration") >>
      [] enc = "ifOther" ->
            << Node("BlockStatement"), TestNode("IfStatement", LeafTest(Ident("x"))) >>
      [] enc = "ifResult" ->
            << Node("BlockStatement"), TestNode("IfStatement", LeafTest(Ident("result"))) >>

RECURSIVE OuterChain(_)
OuterChain(outer) ==
    IF outer = <<>> THEN <<>>
    ELSE EnclosureChain(Head(outer)) \o OuterChain(Tail(outer))

\* The ancestor chain of the call of a site [ctx, awaited, outer] whose outermost
\* enclosure sits under the chain `above`.
AncestorsIn(site, above) ==
    (IF site.awaited THEN << Node("AwaitExpression") >> ELSE <<>>)
    \o ContextChain(site.ctx, IF site.awaited THEN TheAwait ELSE TheCall)
    \o OuterChain(site.outer)
    \o above

\* The ancestor chain of a call at the top level of the file.
Ancestors(site) == AncestorsIn(site, << Node("Program") >>)

\* The ancestors a function-like node adds above the statements of its body.
FnAbove(fn) ==
    << Node("BlockStatement"), FnNode(fn.type, fn.async) >>
    \o CASE fn.naming = "var" -> << Node("VariableDeclarator"), Node("VariableDeclaration") >>
         [] fn.naming = "assign" -> << Node("AssignmentExpression"), Node("ExpressionStatement") >>
         [] fn.naming = "prop" ->
               << Node("ObjectProperty"), Node("ObjectExpression"), Node("ExpressionStatement") >>
         [] fn.naming = "method" -> << Node("ObjectExpression"), Node("ExpressionStatement") >>
         [] fn.naming = "none" -> << Node("CallExpression"), Node("ExpressionStatement") >>
         [] OTHER -> <<>>

\* The call expressions of a file in traversal order, each with its ancestor chain.
RECURSIVE FileCalls(_, _)
FileCalls(items, above) ==
    IF items = <<>> THEN <<>>
    ELSE LET it == Head(items)
         IN  (CASE it.t = "call" -> << [callee |-> it.callee, anc |-> AncestorsIn(it.site, above)] >>
                [] it.t = "fn" -> FileCalls(it.body, FnAbove(it) \o above)
                [] OTHER -> <<>>)
             \o FileCalls(Tail(items), above)

RECURSIVE VisitCalls(_, _, _, _, _)
VisitCalls(analyses, file, calls, i, targetFunctionName) ==
    IF i > Len(calls) THEN analyses
    ELSE VisitCalls(VisitCall(analyses, file, calls[i], targetFunctionName),
                    file, calls, i + 1, targetFunctionName)

\* scanCallerSafety(path.join(projectPath, relPath), targetFunctionName) on the files of
\* a project, as one call.
scanCallerSafety(files, relPath, targetFunctionName) ==
    IF relPath \notin DOMAIN files
    THEN << NotFoundRecord(AbsPath(relPath), targetFunctionName) >>
    ELSE CASE files[relPath].parse = "noscript" -> <<>>
           [] files[relPath].parse = "error" -> << ScanErrorRecord(AbsPath(relPath)) >>
           [] OTHER -> VisitCalls(<<>>, AbsPath(relPath),
                                  FileCalls(files[relPath].items, << Node("Program") >>),
                                  1, targetFunctionName)

SeqsUpTo(S, n) == UNION { [1..k -> S] : k \in 0..n }

Sites == [ ctx : Contexts, awaited : BOOLEAN, outer : SeqsUpTo(Enclosures, MaxNest) ]

\* The call expressions a scanned file may hold: any site calling foo, and a call of
\* another function.
ScanCalls ==
    { [callee |-> "foo", anc |-> Ancestors(st)] : st \in Sites }
    \cup { [callee |-> "other", anc |-> << Node("ExpressionStatement"), Node("Program") >>] }

----------------------------------------------------------------------------
(* scanCallerSafety, one visited call expression at a time *)

\* No project is being parsed.
ParseIdle ==
    /\ project = [exists |-> FALSE, files |-> EmptyMap, mode |-> "FAST"]
    /\ argv = [target |-> NullId, include_caller_safety_scan |-> FALSE]
    /\ remaining = {}
    /\ processedFiles = {}

\* Line 459: let aiExplanation = null
NoExplanation == [summary |-> ""]

\* finalOutput is not built yet.
NoOutput ==
    [direct_dependents |-> <<>>, indirect_dependents |-> <<>>,
     caller_safety_analysis_results |-> <<>>, ai_analysis |-> NoExplanation, built |-> FALSE]

RunIdle ==
    /\ callerSafetyAnalysisResults = <<>>
    /\ allImpacts = <<>>
    /\ narration = "none"
    /\ aiExplanation = NoExplanation
    /\ finalOutput = NoOutput

ScanIdle ==
    /\ scanIn = [ file |-> AbsPath(""), exists |-> FALSE, svelte |-> FALSE, emptyScript |-> FALSE,
                  parses |-> FALSE, target |-> "" ]
    /\ safetyAnalyses = <<>>
    /\ scanCount = 0

AllFlags == [ FlagNames -> BOOLEAN ]

CalcIdle ==
    /\ flagsIn = [ n \in FlagNames |-> FALSE ]
    /\ probOut = [ unsafeDereferenceLikelihood |-> 0, unhandledErrorProbability |-> 0 ]

\* The .svelte file has no script content: code.trim() is empty (line 139).
NoScript == scanIn.svelte /\ scanIn.emptyScript

\* Lines 125-131: the file does not exist.
ScanNotFound ==
    /\ pc = "scan_start"
    /\ ~scanIn.exists
    /\ safetyAnalyses' = << NotFoundRecord(scanIn.file, scanIn.target) >>
    /\ pc' = "scan_done"
    /\ UNCHANGED <<parseVars, graph, brVars, scanIn, scanCount, calcVars, runVars>>

\* Lines 137-142: a .svelte file without script content.
ScanNoScript ==
    /\ pc = "scan_start"
    /\ scanIn.exists /\ NoScript
    /\ safetyAnalyses' = <<>>
    /\ pc' = "scan_done"
    /\ UNCHANGED <<parseVars, graph, brVars, scanIn, scanCount, calcVars, runVars>>

\* ScanParseError with a catch block that pushes nothing.
ScanParseErrorSwallowed ==
    /\ pc = "scan_start"
    /\ scanIn.exists /\ ~NoScript /\ ~scanIn.parses
    /\ pc' = "scan_done"
    /\ UNCHANGED <<parseVars, graph, brVars, scanVars, calcVars, runVars>>

\* Lines 145-148 and 296-303: parser.parse throws, the catch block pushes one record.
ScanParseError ==
    /\ pc = "scan_start"
    /\ scanIn.exists /\ ~NoScript /\ ~scanIn.parses
    /\ safetyAnalyses' = Append(safetyAnalyses, ScanErrorRecord(scanIn.file))
    /\ pc' = "scan_done"
    /\ UNCHANGED <<parseVars, graph, brVars, scanIn, scanCount, calcVars, runVars>>

\* Lines 145-150: the file parses, the traversal starts.
ScanParse ==
    /\ pc = "scan_start"
    /\ scanIn.exists /\ ~NoScript /\ scanIn.parses
    /\ pc' = "scan_traverse"
    /\ UNCHANGED <<parseVars, graph, brVars, scanVars, calcVars, runVars>>

\* Lines 151-294: the traversal reaches the file's next call expression.
ScanVisit ==
    /\ pc = "scan_traverse"
    /\ scanCount < MaxCalls
    /\ \E call \in ScanCalls :
          safetyAnalyses' = VisitCall(safetyAnalyses, scanIn.file, call, scanIn.target)
    /\ scanCount' = scanCount + 1
    /\ UNCHANGED <<parseVars, graph, brVars, scanIn, calcVars, runVars, pc>>

\* Line 303: the traversal is over, the list is returned.
ScanReturn ==
    /\ pc = "scan_traverse"
    /\ pc' = "scan_done"
    /\ UNCHANGED <<parseVars, graph, brVars, scanVars, calcVars, runVars>>

\* calculateSafetyProbabilities applied to flagsIn.
CalcProbabilities ==
    /\ pc = "calc_start"
    /\ probOut' = calculateSafetyProbabilities(flagsIn)
    /\ pc' = "calc_done"
    /\ UNCHANGED <<parseVars, graph, brVars, scanVars, flagsIn, runVars>>

BRIdle ==
    /\ graph = EmptyGraph
    /\ targetId = NullId
    /\ adj = EmptyMap
    /\ queue = <<>>
    /\ visited = {}
    /\ impacts = <<>>

\* Either scanCallerSafety is about to run on any file (missing, unparsable, a
\* .svelte file with or without script, a parsable file) for the target name foo,
\* or calculateSafetyProbabilities is about to run on any of the 64 flag records.
InitSafety ==
    /\ ParseIdle
    /\ BRIdle
    /\ RunIdle
    /\ \/ /\ pc = "scan_start"
          /\ \E ex, sv, es, ps \in BOOLEAN :
                /\ es => sv
                /\ scanIn = [ file |-> AbsPath(IF sv THEN "b.svelte" ELSE "b.js"),
                              exists |-> ex, svelte |-> sv, emptyScript |-> es,
                              parses |-> ps, target |-> "foo" ]
          /\ safetyAnalyses = <<>>
          /\ scanCount = 0
          /\ CalcIdle
       \/ /\ pc = "calc_start"
          /\ ScanIdle
          /\ flagsIn \in AllFlags
          /\ probOut = [ unsafeDereferenceLikelihood |-> 0, unhandledErrorProbability |-> 0 ]

NextSafety ==
    \/ ScanNotFound \/ ScanNoScript \/ ScanParseError \/ ScanParse \/ ScanVisit \/ ScanReturn
    \/ CalcProbabilities

SpecSafety == InitSafety /\ [][NextSafety]_vars

----------------------------------------------------------------------------
(* Projects: what each file of Paths may contain *)

\* function foo() {}
DeclFoo == FnItem("FunctionDeclaration", "decl", "foo", FALSE, <<>>)

\* a.js: declares foo; or imports itself and b.js and declares foo; or does not parse.
AFiles ==
    { Content("ok", << DeclFoo >>),
      Content("ok", << ImportItem("import", "./a.js"), ImportItem("import", "./b.js"),
                       DeclFoo >>),
      Content("error", <<>>) }

\* function bar() { <one use of foo()> }, the use optionally inside try { }.
Bar(ctx, outer) ==
    FnItem("FunctionDeclaration", "decl", "bar", FALSE, << CallItem("foo", Site(ctx, FALSE, outer)) >>)

\* b.js: imports foo from './a.js' and declares bar, which calls foo; or does not parse.
BFiles ==
    { Content("ok", << ImportItem("import", "./a.js"), Bar(ctx, outer) >>) :
        ctx \in {"stmt", "declId", "declObj", "optmember"}, outer \in { <<>>, <<"try">> } }
    \cup { Content("error", <<>>) }

\* c.js: declares its own foo, which calls bar;
\* or re-exports b.js and a package, and holds const baz = () => { run(function () { foo(); }); }
\* and exports.qux = async function () { await x.foo(); };
\* or does not parse.
CFiles ==
    { Content("ok", << FnItem("FunctionDeclaration", "decl", "foo", FALSE,
                              << CallItem("bar", Site("stmt", FALSE, <<>>)) >>) >>),
      Content("ok", << ImportItem("barrel_export", "./b.js"),
                       ImportItem("re_export", "lodash"),
                       FnItem("ArrowFunctionExpression", "var", "baz", FALSE,
                              << CallItem("run", Site("stmt", FALSE, <<>>)),
                                 FnItem("FunctionExpression", "none", "", FALSE,
                                        << CallItem("foo", Site("stmt", FALSE, <<>>)) >>) >>),
                       FnItem("FunctionExpression", "assign", "qux", TRUE,
                              << CallItem("foo", Site("stmt", TRUE, <<>>)) >>) >>),
      Content("error", <<>>) }

\* d.svelte: no script content, or a script that declares bar calling (0, foo)() and foo()
\* and holds const api = { bar: function () {} }.
DFiles ==
    { Content("noscript", <<>>),
      Content("ok", << FnItem("FunctionDeclaration", "decl", "bar", FALSE,
                              << CallItem("", Site("stmt", FALSE, <<>>)),
                                 CallItem("foo", Site("ifCall", FALSE, <<>>)) >>),
                       FnItem("FunctionExpression", "prop", "bar", FALSE, <<>>) >>) }

\* src/routes/users/+server.js: imports a.js and holds
\* export async function GET() { try { const result = await foo(); } catch (e) {} },
\* or holds const handlers = { post() { foo(); } }.
ServerFiles ==
    { Content("ok", << ImportItem("import", "../../../a.js"),
                       FnItem("FunctionDeclaration", "decl", "GET", TRUE,
                              << CallItem("foo", Site("declId", TRUE, <<"try">>)) >>) >>),
      Content("ok", << FnItem("ObjectMethod", "method", "post", FALSE,
                              << CallItem("foo", Site("stmt", FALSE, <<>>)) >>) >>) }

\* src/routes/users/+page.js:
\* import 'src/routes/users/+server';
\* export const get = () => { foo(); const helper = () => { bar(); GET(); }; };
\* and exports.put = function () {};
PageFiles ==
    { Content("ok", << ImportItem("import", "src/routes/users/+server"),
                       FnItem("ArrowFunctionExpression", "var", "get", FALSE,
                              << CallItem("foo", Site("stmt", FALSE, <<>>)),
                                 FnItem("ArrowFunctionExpression", "var", "helper", FALSE,
                                        << CallItem("bar", Site("stmt", FALSE, <<>>)),
                                           CallItem("GET", Site("stmt", FALSE, <<>>)) >>) >>),
                       FnItem("FunctionExpression", "assign", "put", FALSE, <<>>) >>) }

FileContents(path) ==
    CASE path = "a.js" -> AFiles
      [] path = "b.js" -> BFiles
      [] path = "c.js" -> CFiles
      [] path = "d.svelte" -> DFiles
      [] path = "src/routes/users/+page.js" -> PageFiles
      [] OTHER -> ServerFiles

\* The files of a project: at most MaxFiles of the paths, each with one of its contents.
Projects ==
    UNION { { fs \in [S -> UNION { FileContents(q) : q \in S }] :
                \A q \in S : fs[q] \in FileContents(q) } :
            S \in { T \in SUBSET Paths : Cardinality(T) <= MaxFiles } }

\* The target specifiers of the command line, as the pieces of split('::').
Targets ==
    { <<"a.js", "foo">>, <<"foo">>, <<"bar">>, <<"GET">>, <<"POST /users">>, <<"b.js">>,
      <<"nothing">> }

----------------------------------------------------------------------------
(* impactRadar.js: run() *)

\* k.endsWith(`::${target}`): the last pieces of k are the target's, after a separator.
EndsWithSep(k, target) ==
    /\ Len(k) > Len(target)
    /\ SubSeq(k, Len(k) - Len(target) + 1, Len(k)) = target

\* k.startsWith(`${target} `): the target is the first word(s) of k's first piece.  The
\* pieces of the model hold at most one space, so the target is the one word before it.
StartsWithSpace(k, target) ==
    /\ Len(target) = 1
    /\ Len(k) >= 1
    /\ Len(SplitSpace(k[1])) > 1
    /\ SplitSpace(k[1])[1] = target[1]

\* Lines 180-182: the predicate handed to find.
MatchesTarget(k, target) ==
    k = target \/ EndsWithSep(k, target) \/ StartsWithSpace(k, target)

\* Array.prototype.find over Object.keys(graph.nodes); NullId stands for undefined.
RECURSIVE FindTarget(_, _)
FindTarget(keys, target) ==
    IF keys = <<>> THEN NullId
    ELSE IF MatchesTarget(Head(keys), target) THEN Head(keys)
    ELSE FindTarget(Tail(keys), target)

\* argv.target as a string: a specifier of one piece is that piece.
TargetString(target) == IF Len(target) = 1 THEN target[1] ELSE "<specifier>"

\* Line 204: targetNodeDetails.name || argv.target
TargetFunctionName(nodes, id, target) ==
    IF nodes[id].name # "" THEN nodes[id].name ELSE TargetString(target)

\* Lines 202-203: the files of the function and api impacts, each once, in list order.
RECURSIVE UniqueImpactedFiles(_)
UniqueImpactedFiles(imps) ==
    IF imps = <<>> THEN <<>>
    ELSE LET i == imps[Len(imps)]
             before == UniqueImpactedFiles(SubSeq(imps, 1, Len(imps) - 1))
         IN  IF i.type \in {"function", "api"} /\ i.file # "N/A"
             THEN SetAdd(before, i.file) ELSE before

\* Lines 206-209: the scans of those files, concatenated.
RECURSIVE ScanAll(_, _, _)
ScanAll(files, rels, name) ==
    IF rels = <<>> THEN <<>>
    ELSE scanCallerSafety(files, Head(rels), name) \o ScanAll(files, Tail(rels), name)

\* Lines 213-216: the records of one impact's file that name the target function.
SafetyForImpact(results, impact, name) ==
    SelectSeq(results, LAMBDA r : /\ r.file = AbsPath(impact.file)
                                  /\ "callee" \in DOMAIN r
                                  /\ r.callee = name)

\* Lines 212-218: every impact gains its caller_safety_details.
Augment(imps, results, name) ==
    [ i \in DOMAIN imps |->
        [ impact |-> imps[i], caller_safety_details |-> SafetyForImpact(results, imps[i], name) ] ]

\* Lines 167-171: the project directory does not exist.
RunProjectMissing ==
    /\ pc = "run_start"
    /\ ~project.exists
    /\ pc' = "exit_1"
    /\ UNCHANGED <<parseVars, graph, brVars, scanVars, calcVars, runVars>>

\* Lines 173 and 150-187: parseToGraph starts, the files are collected.
RunParse ==
    /\ pc = "run_start"
    /\ project.exists
    /\ remaining' = DOMAIN project.files
    /\ pc' = "parse_loop"
    /\ UNCHANGED <<project, argv, processedFiles, graph, brVars, scanVars, calcVars, runVars>>

\* Lines 180-187: no node id matches the specifier.
RunTargetNotFound ==
    /\ pc = "parse_done"
    /\ FindTarget(graph.keys, argv.target) = NullId
    /\ pc' = "exit_1"
    /\ UNCHANGED <<parseVars, graph, brVars, scanVars, calcVars, runVars>>

\* Lines 180-194: find returns a node id, calculateBlastRadius is called with it.
RunResolveTarget ==
    /\ pc = "parse_done"
    /\ FindTarget(graph.keys, argv.target) # NullId
    /\ targetId' = FindTarget(graph.keys, argv.target)
    /\ pc' = "br_start"
    /\ UNCHANGED <<parseVars, graph, adj, queue, visited, impacts, scanVars, calcVars, runVars>>

\* Lines 199-219: the caller safety scan of the impacted files.
RunSafetyScan ==
    /\ pc = "br_done"
    /\ argv.include_caller_safety_scan
    /\ LET name == TargetFunctionName(graph.nodes, targetId, argv.target)
           results == ScanAll(project.files, UniqueImpactedFiles(impacts), name)
       IN  /\ callerSafetyAnalysisResults' = results
           /\ allImpacts' = Augment(impacts, results, name)
    /\ pc' = "run_scanned"
    /\ UNCHANGED <<parseVars, graph, brVars, scanVars, calcVars, reportVars>>

\* Line 200: the scan is switched off.
RunSkipScan ==
    /\ pc = "br_done"
    /\ ~argv.include_caller_safety_scan
    /\ allImpacts' = [ i \in DOMAIN impacts |-> [ impact |-> impacts[i], caller_safety_details |-> <<>> ] ]
    /\ pc' = "run_scanned"
    /\ UNCHANGED <<parseVars, graph, brVars, scanVars, calcVars, callerSafetyAnalysisResults,
                   reportVars>>

\* Lines 481-495: the explanation substituted when there is no API key.
SkippedExplanation ==
    [summary |-> "AI analysis skipped. Please set the OPENAI_API_KEY environment variable."]

\* Lines 472-476: the explanation substituted by the catch block.
FailedExplanation == [summary |-> "AI Analysis failed to generate."]

\* What JSON.parse makes of the generator's answer.
GeneratedExplanation == [summary |-> "<generated>"]

\* Lines 461 and 478-496: openai is null (no API key), the generator is not called.
RunNarrativeSkipped ==
    /\ pc = "run_scanned"
    /\ narration' = "skipped"
    /\ aiExplanation' = SkippedExplanation
    /\ pc' = "run_narrated"
    /\ UNCHANGED <<parseVars, graph, brVars, scanVars, calcVars, callerSafetyAnalysisResults,
                   allImpacts, finalOutput>>

\* RunNarrativeFailed without the try/catch: the rejection leaves run().
RunNarrativeFailedAborts ==
    /\ pc = "run_scanned"
    /\ \E cause \in {"threw", "unparsable"} : narration' = cause
    /\ pc' = "exit_1"
    /\ UNCHANGED <<parseVars, graph, brVars, scanVars, calcVars, callerSafetyAnalysisResults,
                   allImpacts, aiExplanation, finalOutput>>

\* Lines 462-477: the call rejects, or JSON.parse throws on its content; the catch block
\* substitutes the static explanation.
RunNarrativeFailed ==
    /\ pc = "run_scanned"
    /\ \E cause \in {"threw", "unparsable"} : narration' = cause
    /\ aiExplanation' = FailedExplanation
    /\ pc' = "run_narrated"
    /\ UNCHANGED <<parseVars, graph, brVars, scanVars, calcVars, callerSafetyAnalysisResults,
                   allImpacts, finalOutput>>

\* Lines 462-469: the call answers with JSON content.
RunNarrativeGenerated ==
    /\ pc = "run_scanned"
    /\ narration' = "generated"
    /\ aiExplanation' = GeneratedExplanation
    /\ pc' = "run_narrated"
    /\ UNCHANGED <<parseVars, graph, brVars, scanVars, calcVars, callerSafetyAnalysisResults,
                   allImpacts, finalOutput>>

\* Lines 499-554: finalOutput (its impact tree, safety results and explanation).
RunBuildOutput ==
    /\ pc = "run_narrated"
    /\ finalOutput' =
          [direct_dependents |-> SelectSeq(allImpacts, LAMBDA i : i.impact.depth = 1),
           indirect_dependents |-> SelectSeq(allImpacts, LAMBDA i : i.impact.depth > 1),
           caller_safety_analysis_results |-> callerSafetyAnalysisResults,
           ai_analysis |-> aiExplanation, built |-> TRUE]
    /\ pc' = "run_output"
    /\ UNCHANGED <<parseVars, graph, brVars, scanVars, calcVars, callerSafetyAnalysisResults,
                   allImpacts, narration, aiExplanation>>

\* Lines 557-562: --visualize is set and templates/report.html is missing.
RunTemplateMissing ==
    /\ pc = "run_output"
    /\ pc' = "exit_template"
    /\ UNCHANGED <<parseVars, graph, brVars, scanVars, calcVars, runVars>>

\* Lines 557-590: the report is written out (and visualized when asked).
RunPrint ==
    /\ pc = "run_output"
    /\ pc' = "run_done"
    /\ UNCHANGED <<parseVars, graph, brVars, scanVars, calcVars, runVars>>

\* parseToGraph is about to loop over the collected files of any project, in either mode.
InitGraph ==
    /\ \E fs \in Projects, mode \in {"FAST", "FULL"} :
          /\ project = [exists |-> TRUE, files |-> fs, mode |-> mode]
          /\ remaining = DOMAIN fs
    /\ argv = [target |-> NullId, include_caller_safety_scan |-> FALSE]
    /\ processedFiles = {}
    /\ BRIdle
    /\ ScanIdle
    /\ CalcIdle
    /\ RunIdle
    /\ pc = "parse_loop"

NextGraph == ParseProcessNext \/ ParsePostProcess

SpecGraph == InitGraph /\ [][NextGraph]_vars

\* run() is about to start on any project (or on a path that does not exist), with any
\* target specifier, the scan switched on or off; run() calls parseToGraph in FAST mode.
InitRun ==
    /\ \/ \E fs \in Projects : project = [exists |-> TRUE, files |-> fs, mode |-> "FAST"]
       \/ project = [exists |-> FALSE, files |-> EmptyMap, mode |-> "FAST"]
    /\ \E t \in Targets, sc \in BOOLEAN : argv = [target |-> t, include_caller_safety_scan |-> sc]
    /\ remaining = {}
    /\ processedFiles = {}
    /\ BRIdle
    /\ ScanIdle
    /\ CalcIdle
    /\ RunIdle
    /\ pc = "run_start"

NextRun ==
    \/ RunProjectMissing \/ RunParse
    \/ ParseProcessNext \/ ParsePostProcess
    \/ RunTargetNotFound \/ RunResolveTarget
    \/ BRStart \/ BRIterate \/ BRReturn
    \/ RunSafetyScan \/ RunSkipScan
    \/ RunNarrativeSkipped \/ RunNarrativeFailed \/ RunNarrativeGenerated
    \/ RunBuildOutput \/ RunTemplateMissing \/ RunPrint

SpecRun == InitRun /\ [][NextRun]_vars

----------------------------------------------------------------------------
(* Graphs handed directly to calculateBlastRadius *)

\* "a.js::foo", "foo", "b.js::bar" and "d::e.js::foo" (a function foo declared in
\* a file whose relative path is "d::e.js").
BRIds == { <<"a.js", "foo">>, <<"foo">>, <<"b.js", "bar">>, <<"d", "e.js", "foo">> }

\* Dependency edges between any two ids, one dependency edge whose `to` is null, and
\* structural edges (which the function skips on their type alone) from two of the ids
\* to a function id or a bare name.
BREdges ==
    [ from : BRIds, to : BRIds, type : {"dependency"}, kind : {"call"} ]
    \cup { [from |-> <<"b.js", "bar">>, to |-> NullId, type |-> "dependency", kind |-> "call"] }
    \cup [ from : { <<"b.js", "bar">>, <<"foo">> }, to : { <<"a.js", "foo">>, <<"foo">> },
           type : {"structural"}, kind : {""} ]

BRNodes ==
    (<<"a.js", "foo">> :> [type |-> "function", name |-> "foo", file |-> "a.js", route |-> "",
                           zone |-> "Unknown Zone", isAsync |-> FALSE])
    @@ (<<"b.js", "bar">> :> [type |-> "function", name |-> "bar", file |-> "b.js", route |-> "",
                              zone |-> "Unknown Zone", isAsync |-> FALSE])

\* Any graph of at most MaxEdges edges and any target id; the function has not started.
InitBR ==
    /\ \E n \in 0..MaxEdges : \E es \in [1..n -> BREdges] :
           graph = [nodes |-> BRNodes, keys |-> << <<"a.js", "foo">>, <<"b.js", "bar">> >>,
                    edges |-> es, metadata |-> NoMetadata]
    /\ targetId \in BRIds
    /\ adj = EmptyMap
    /\ queue = <<>>
    /\ visited = {}
    /\ impacts = <<>>
    /\ ParseIdle
    /\ ScanIdle
    /\ CalcIdle
    /\ RunIdle
    /\ pc = "br_start"

NextBR == BRStart \/ BRIterate \/ BRReturn

SpecBR == InitBR /\ [][NextBR]_vars

----------------------------------------------------------------------------
(* Properties of calculateBlastRadius *)

ImpactIds == { impacts[i].id : i \in DOMAIN impacts }

\* The depth of the queue entry of id: 0 for the target, else the depth of its record.
EntryDepth(id) ==
    IF id = targetId THEN 0
    ELSE LET i == CHOOSE k \in DOMAIN impacts : impacts[k].id = id IN impacts[i].depth

\* The id of the queue entry that discovered record r: the last but one of its chain.
Discoverer(r) == r.chain[Len(r.chain) - 1]

\* C1: the Impact List holds each node id at most once, and every record's depth is
\* 1 plus the depth of the queue entry (the target, at depth 0, or an earlier record)
\* that discovered it, of which it is a dependent; cycles and self-loops included.
C1_NoDuplicateVisitation ==
    /\ \A i, j \in DOMAIN impacts : impacts[i].id = impacts[j].id => i = j
    /\ \A i \in DOMAIN impacts :
          LET r == impacts[i]
              p == Discoverer(r)
          IN  /\ Len(r.chain) >= 2
              /\ p = targetId \/ \E k \in 1..(i - 1) : impacts[k].id = p
              /\ r.id \in Range(Dependents(adj, p))
              /\ r.depth = 1 + EntryDepth(p)

\* The traversal has returned on a graph with a dependency cycle through the target
\* or a self-loop: a record's own dependents hold the target or the record itself.
C1_Witness ==
    /\ pc = "br_done"
    /\ \E i \in DOMAIN impacts :
          \E d \in Range(Dependents(adj, impacts[i].id)) : d = targetId \/ d = impacts[i].id

\* C2: depths never decrease along the Impact List (all of depth k come before any
\* of depth k+1), every depth is at least 1, and the target is never in the list.
C2_DepthMonotonicity ==
    /\ \A i, j \in DOMAIN impacts : i < j => impacts[i].depth <= impacts[j].depth
    /\ \A i \in DOMAIN impacts : impacts[i].depth >= 1 /\ impacts[i].id # targetId

\* The traversal has returned records of depth 1 and of depth 2 for a target that is
\* its own direct or transitive dependent.
C2_Witness ==
    /\ pc = "br_done"
    /\ \E i, j \in DOMAIN impacts : impacts[i].depth = 1 /\ impacts[j].depth = 2
    /\ \/ targetId \in Range(Dependents(adj, targetId))
       \/ \E i \in DOMAIN impacts : targetId \in Range(Dependents(adj, impacts[i].id))

\* The edges that are not structural, in their order.
RECURSIVE NonStructural(_)
NonStructural(edges) ==
    IF edges = <<>> THEN <<>>
    ELSE IF Head(edges).type # "structural"
         THEN <<Head(edges)>> \o NonStructural(Tail(edges))
         ELSE NonStructural(Tail(edges))

\* The graph with its structural edges removed.
WithoutStructural(g) == [g EXCEPT !.edges = NonStructural(g.edges)]

\* C3: the returned Impact List is the one returned for the graph without its
\* structural edges, and it is empty when every edge is structural.
C3_StructuralEdgesIgnored ==
    pc = "br_done" =>
        /\ impacts = calculateBlastRadius(WithoutStructural(graph), targetId)
        /\ (\A i \in DOMAIN graph.edges : graph.edges[i].type = "structural") => impacts = <<>>

\* The traversal has returned on a graph with a structural edge that points at the
\* target (by full id or bare name) from a node that is not in the Impact List.
C3_Witness ==
    /\ pc = "br_done"
    /\ \E i \in DOMAIN graph.edges :
          LET e == graph.edges[i]
          IN  /\ e.type = "structural"
              /\ e.to \in {targetId, ShortName(targetId)}
              /\ e.from # targetId
              /\ e.from \notin ImpactIds

\* The last piece of an id: the name after the last "::".
BareName(id) == <<id[Len(id)]>>

\* C4: with a dependency edge (from = C, to = N), N a bare name, and a target
\* F + "::" + N, the returned list reports C at depth 1 unless C is the target.
C4_DualKeyResolution ==
    pc = "br_done" =>
        \A i \in DOMAIN graph.edges :
            LET e == graph.edges[i]
            IN  ( /\ e.type = "dependency"
                  /\ e.to # NullId
                  /\ ~HasSep(e.to)
                  /\ HasSep(targetId)
                  /\ BareName(targetId) = e.to
                  /\ e.from # targetId )
                => \E k \in DOMAIN impacts : impacts[k].id = e.from /\ impacts[k].depth = 1

----------------------------------------------------------------------------
(* Properties of the caller-safety analyzer *)

\* A record of a call site (not an explanatory record): it carries the six flags.
IsCallSiteRecord(r) == FlagNames \subseteq DOMAIN r

\* C5: every Safety Record with isOptionalChaining = true has hasNullCheck = true.
C5_OptionalChainingImpliesNullCheck ==
    \A i \in DOMAIN safetyAnalyses :
        LET r == safetyAnalyses[i]
        IN  (IsCallSiteRecord(r) /\ r.isOptionalChaining) => r.hasNullCheck

\* scanCallerSafety has returned a record of an optionally chained call.
C5_Witness ==
    /\ pc = "scan_done"
    /\ \E i \in DOMAIN safetyAnalyses :
          IsCallSiteRecord(safetyAnalyses[i]) /\ safetyAnalyses[i].isOptionalChaining

\* The six flags in their safest configuration.
SafestFlags ==
    [ hasNullCheck |-> TRUE, hasTryCatch |-> TRUE, isOptionalChaining |-> TRUE,
      isDestructuredImmediately |-> FALSE, assumedExists |-> FALSE, isAsyncCall |-> FALSE ]

\* C6: for the safest configuration of the six flags calculateSafetyProbabilities
\* returns exactly 0.00 for both probabilities.
C6_FullMitigationOverride ==
    (pc = "calc_done" /\ flagsIn = SafestFlags) =>
        /\ probOut.unsafeDereferenceLikelihood = 0
        /\ probOut.unhandledErrorProbability = 0

\* calculateSafetyProbabilities has returned for the safest configuration.
C6_Witness == pc = "calc_done" /\ flagsIn = SafestFlags

\* A probability field of r that lies in [0, 1] (0..100 hundredths).
HasProbability(r, field) == field \in DOMAIN r /\ r[field] \in 0..100

\* C7: every record scanCallerSafety returns (those for a missing file or a parse
\* failure included) carries both probabilities, in [0, 1]; and so does the value of
\* calculateSafetyProbabilities for each of the 64 flag combinations.
C7_ProbabilityBounds ==
    /\ pc = "scan_done" =>
          \A i \in DOMAIN safetyAnalyses :
              /\ HasProbability(safetyAnalyses[i], "unsafeDereferenceLikelihood")
              /\ HasProbability(safetyAnalyses[i], "unhandledErrorProbability")
    /\ pc = "calc_done" =>
          /\ HasProbability(probOut, "unsafeDereferenceLikelihood")
          /\ HasProbability(probOut, "unhandledErrorProbability")

\* The files of the project that fail to parse, and those that parse.
FailingFiles == { q \in DOMAIN project.files : project.files[q].parse = "error" }
ValidFiles == { q \in DOMAIN project.files : project.files[q].parse = "ok" }

ModuleNodeIds == { k \in DOMAIN graph.nodes : graph.nodes[k].type = "module" }

\* What processFile contributes for the file q on its own.
OwnGraph(q) ==
    processFile([nodes |-> EmptyMap, keys |-> <<>>, edges |-> <<>>, metadata |-> NoMetadata,
                 processed |-> {}],
                q, project.files, "FAST")

\* C8: when one file of the project fails to parse and the n others parse, parseToGraph
\* returns a graph with exactly n Module nodes, none of them for the failing file, with
\* unresolved_files = 1 and with the nodes and edges of the n valid files all present.
C8_ParseFailureIsolation ==
    (/\ pc = "parse_done"
     /\ Cardinality(FailingFiles) = 1
     /\ FailingFiles \cup ValidFiles = DOMAIN project.files)
    => /\ Cardinality(ModuleNodeIds) = Cardinality(ValidFiles)
       /\ \A q \in FailingFiles : <<q>> \notin DOMAIN graph.nodes
       /\ graph.metadata.unresolved_files = 1
       /\ \A q \in ValidFiles :
             /\ DOMAIN OwnGraph(q).nodes \subseteq DOMAIN graph.nodes
             /\ Range(OwnGraph(q).edges) \subseteq Range(graph.edges)

\* function bar() { foo(); } and function bar() { const result = foo(); }
UnguardedUses == { "stmt", "declId" }

\* a.js declares foo; b.js imports it from './a.js' and declares bar, which calls foo()
\* with no guard.
EndToEndProjects ==
    { ("a.js" :> Content("ok", << DeclFoo >>))
      @@ ("b.js" :> Content("ok", << ImportItem("import", "./a.js"), Bar(ctx, <<>>) >>)) :
      ctx \in UnguardedUses }

EndToEndRun ==
    /\ pc = "run_scanned"
    /\ project.files \in EndToEndProjects
    /\ argv.target = <<"a.js", "foo">>

\* C9: for that project and the target "a.js::foo", the Impact List is exactly one
\* record, id "b.js::bar" at depth 1, and the Safety Record of the call site has
\* assumedExists = true, unsafeDereferenceLikelihood = 0.85 and
\* unhandledErrorProbability = 0.60.
C9_EndToEnd ==
    EndToEndRun =>
        /\ targetId = <<"a.js", "foo">>
        /\ Len(allImpacts) = 1
        /\ allImpacts[1].impact.id = <<"b.js", "bar">>
        /\ allImpacts[1].impact.depth = 1
        /\ argv.include_caller_safety_scan =>
              /\ Len(callerSafetyAnalysisResults) = 1
              /\ allImpacts[1].caller_safety_details = callerSafetyAnalysisResults
              /\ callerSafetyAnalysisResults[1].file = AbsPath("b.js")
              /\ callerSafetyAnalysisResults[1].assumedExists
              /\ callerSafetyAnalysisResults[1].unsafeDereferenceLikelihood = 85
              /\ callerSafetyAnalysisResults[1].unhandledErrorProbability = 60

\* run() has scanned the callers of a.js::foo in that project.
C9_Witness == EndToEndRun /\ argv.include_caller_safety_scan /\ Len(callerSafetyAnalysisResults) > 0

\* The node ids the target specifier matches.
MatchingIds == { k \in Range(graph.keys) : MatchesTarget(k, argv.target) }

\* C10: the Impact List is computed only for a specifier that matches exactly one node
\* id, and for that id; with no match or with several matches the run aborts instead.
C10_TargetResolution ==
    /\ pc \in {"br_start", "br_loop", "br_done", "run_scanned"} =>
          /\ Cardinality(MatchingIds) = 1
          /\ targetId \in MatchingIds
    /\ (pc = "exit_1" /\ project.exists) => Cardinality(MatchingIds) # 1

\* The function-like nodes of a file's constructs that get a node id, nested ones included.
RECURSIVE NamedFunctions(_, _)
NamedFunctions(items, relPath) ==
    IF items = <<>> THEN {}
    ELSE LET it == Head(items)
         IN  (IF it.t = "fn"
              THEN (IF FnNodeId(it, relPath) # NullId THEN {it} ELSE {})
                   \cup NamedFunctions(it.body, relPath)
              ELSE {})
             \cup NamedFunctions(Tail(items), relPath)

\* C11: in the graph parseToGraph returns, two named function-like declarations of
\* different files never share a node id, so the record stored under a declaration's
\* id is that of its own file.
C11_NodeIdsUnique ==
    pc = "parse_done" =>
        \A q1 \in ValidFiles, q2 \in ValidFiles :
            q1 # q2 =>
                \A f1 \in NamedFunctions(project.files[q1].items, q1),
                   f2 \in NamedFunctions(project.files[q2].items, q2) :
                    /\ FnNodeId(f1, q1) # FnNodeId(f2, q2)
                    /\ graph.nodes[FnNodeId(f1, q1)].file = q1

\* An explanatory record: it holds an analysis text and describes no call site.
IsExplanatoryRecord(r) == "analysis" \in DOMAIN r /\ ~IsCallSiteRecord(r)

\* C12: scanCallerSafety always returns: one of its paths is open from the start, and it
\* returns the empty list for a .svelte file without script content, exactly one
\* explanatory record for a missing file, and exactly one explanatory record and
\* nothing else when the file does not parse.
C12_ScanNeverThrows ==
    /\ pc = "scan_start" =>
          ENABLED (ScanNotFound \/ ScanNoScript \/ ScanParseError \/ ScanParse)
    /\ pc = "scan_done" =>
          /\ ~scanIn.exists =>
                Len(safetyAnalyses) = 1 /\ IsExplanatoryRecord(safetyAnalyses[1])
          /\ (scanIn.exists /\ NoScript) => safetyAnalyses = <<>>
          /\ (scanIn.exists /\ ~NoScript /\ ~scanIn.parses) =>
                Len(safetyAnalyses) = 1 /\ IsExplanatoryRecord(safetyAnalyses[1])

\* scanCallerSafety has returned for a file that exists and does not parse.
C12_Witness ==
    /\ pc = "scan_done"
    /\ scanIn.exists /\ ~NoScript /\ ~scanIn.parses
    /\ Len(safetyAnalyses) = 1

\* C13: when the narrative generator is unavailable, or its call throws or answers with
\* unparsable content, run() goes on: the static explanation is substituted and the final
\* report is built with the Impact List and the safety results as they were computed.
C13_NarrativeFailureIsolated ==
    narration \in {"skipped", "threw", "unparsable"} =>
        /\ pc \in {"run_narrated", "run_output", "run_done", "exit_template"}
        /\ aiExplanation = (IF narration = "skipped" THEN SkippedExplanation
                            ELSE FailedExplanation)
        /\ pc \in {"run_output", "run_done"} =>
              /\ finalOutput.built
              /\ finalOutput.ai_analysis = aiExplanation
              /\ finalOutput.direct_dependents \o finalOutput.indirect_dependents = allImpacts
              /\ \A i \in DOMAIN allImpacts : allImpacts[i].impact = impacts[i]
              /\ finalOutput.caller_safety_analysis_results = callerSafetyAnalysisResults

\* The report has been written after the generator's call failed, for a target with
\* dependents.
C13_Witness ==
    /\ pc = "run_done"
    /\ narration \in {"threw", "unparsable"}
    /\ finalOutput.direct_dependents # <<>>

\* bare(s): the segment after "::" when s holds one, else s.
SegmentAfterSep(s) == IF Len(s) > 1 THEN <<s[2]>> ELSE s

\* y is a dependent of x: a non-structural edge from y points at x's full or bare form
\* by its own full or bare form.
DependentStep(x, y) ==
    \E i \in DOMAIN graph.edges :
        LET e == graph.edges[i]
        IN  /\ e.type # "structural"
            /\ e.to # NullId
            /\ e.from = y
            /\ {e.to, SegmentAfterSep(e.to)} \cap {x, SegmentAfterSep(x)} # {}

EdgeSources == { graph.edges[i].from : i \in DOMAIN graph.edges }

\* The ids at most k dependent steps away from the target.
RECURSIVE WithinSteps(_)
WithinSteps(k) ==
    IF k = 0 THEN {targetId}
    ELSE LET near == WithinSteps(k - 1)
         IN  near \cup { y \in EdgeSources : \E x \in near : DependentStep(x, y) }

\* The length of the shortest path of dependent steps from the target to y.
ShortestPath(y) ==
    CHOOSE k \in 1..Len(graph.edges) : y \in WithinSteps(k) /\ y \notin WithinSteps(k - 1)

\* C14: the ids of the Impact List are exactly the nodes reachable from the target by
\* one or more dependent steps, the target left out, and each record's depth is the
\* length of the shortest such path.
C14_ExactShortestPathBFS ==
    pc = "br_done" =>
        /\ ImpactIds = WithinSteps(Len(graph.edges)) \ {targetId}
        /\ \A i \in DOMAIN impacts : impacts[i].depth = ShortestPath(impacts[i].id)

\* The traversal has returned a dependent of the target that is also a dependent of
\* another dependent: it is one step and two steps away.
C14_Witness ==
    /\ pc = "br_done"
    /\ \E i, j \in DOMAIN impacts :
          /\ i # j
          /\ impacts[i].depth = 1 /\ impacts[j].depth = 1
          /\ DependentStep(impacts[i].id, impacts[j].id)

\* The name matches an HTTP verb whatever its case, and the file has a route.
VerbInRouteFile(fn, relPath) ==
    ToUpperCase(fn.name) \in HttpMethods /\ getRouteInfo(relPath) # ""

\* C15: a named function-like node is recorded as an API node, under the id
\* UPPERCASE name + " " + route, exactly when its name matches an HTTP verb and its
\* file has a route, whatever gave it its name; otherwise it is recorded as a Function
\* node under relativePath + "::" + name.
C15_ApiClassification ==
    pc = "parse_done" =>
        \A q \in ValidFiles :
            \A fn \in NamedFunctions(project.files[q].items, q) :
                LET apiId == << ApiIdString(ToUpperCase(fn.name), getRouteInfo(q)) >>
                    fnId == <<q, fn.name>>
                IN  IF VerbInRouteFile(fn, q)
                    THEN /\ apiId \in DOMAIN graph.nodes
                         /\ graph.nodes[apiId].type = "api"
                         /\ fnId \notin DOMAIN graph.nodes
                    ELSE /\ fnId \in DOMAIN graph.nodes
                         /\ graph.nodes[fnId].type = "function"

\* Whether the innermost function-like node of an ancestor chain is async (FALSE when
\* no function-like node encloses the call).
RECURSIVE InnermostFunctionIsAsync(_, _)
InnermostFunctionIsAsync(anc, i) ==
    IF i > Len(anc) THEN FALSE
    ELSE IF anc[i].type \in FunctionTypes THEN anc[i].async
    ELSE InnermostFunctionIsAsync(anc, i + 1)

\* C16: the record the visitor pushes for a call site has isAsyncCall true exactly when
\* the first (innermost) function-like construct enclosing the call is async; a call
\* inside a non-async function nested in an async function gets isAsyncCall = FALSE.
C16_AsyncFromInnermostFunction ==
    [][ \A call \in ScanCalls :
            ( /\ pc = "scan_traverse"
              /\ safetyAnalyses' = VisitCall(safetyAnalyses, scanIn.file, call, scanIn.target)
              /\ Len(safetyAnalyses') = Len(safetyAnalyses) + 1 )
            => safetyAnalyses'[Len(safetyAnalyses')].isAsyncCall
                   = InnermostFunctionIsAsync(call.anc, 1) ]_vars

\* The reference rule engine, in hundredths.
RefFloor0(x) == IF x < 0 THEN 0 ELSE x
RefClamp(x) == IF x < 0 THEN 0 ELSE IF x > 100 THEN 100 ELSE x

RefNoGuard(f) == ~f.hasNullCheck /\ ~f.isOptionalChaining

RefUnsafe(f) ==
    LET base == IF RefNoGuard(f) THEN 70 ELSE 10
        destructured == IF f.isDestructuredImmediately /\ RefNoGuard(f) THEN 20 ELSE 0
        assumed == IF f.assumedExists /\ RefNoGuard(f) THEN 15 ELSE 0
        raised == base + destructured + assumed
        afterNullCheck == IF f.hasNullCheck THEN RefFloor0(raised - 50) ELSE raised
    IN  IF f.isOptionalChaining THEN RefFloor0(afterNullCheck - 40) ELSE afterNullCheck

RefUnhandled(f) ==
    (IF ~f.hasTryCatch THEN 60 ELSE 10)
    + (IF f.isAsyncCall /\ ~f.hasTryCatch THEN 20 ELSE 0)

RefNearFull(f) ==
    /\ f.hasNullCheck /\ f.hasTryCatch
    /\ ~f.isDestructuredImmediately /\ ~f.assumedExists /\ ~f.isAsyncCall

RefFinal(f, x) ==
    IF RefNearFull(f) /\ f.isOptionalChaining THEN 0
    ELSE IF RefNearFull(f) /\ RefClamp(x) > 1 THEN 1
    ELSE RefClamp(x)

\* C17: for each of the 64 combinations of the six flags calculateSafetyProbabilities
\* returns the values of the reference rule engine computed in hundredths.
C17_MatchesReferenceRules ==
    pc = "calc_done" =>
        /\ probOut.unsafeDereferenceLikelihood = RefFinal(flagsIn, RefUnsafe(flagsIn))
        /\ probOut.unhandledErrorProbability = RefFinal(flagsIn, RefUnhandled(flagsIn))

\* calculateSafetyProbabilities has returned for an async call without try/catch whose
\* value is destructured at once with no guard: both penalties apply (0.90 and 0.80).
C17_Witness ==
    /\ pc = "calc_done"
    /\ flagsIn.isAsyncCall /\ ~flagsIn.hasTryCatch
    /\ flagsIn.isDestructuredImmediately /\ RefNoGuard(flagsIn) /\ ~flagsIn.assumedExists
    /\ probOut.unsafeDereferenceLikelihood = 90
    /\ probOut.unhandledErrorProbability = 80

\* C18: in every call-site record assumedExists is true if and only if hasNullCheck,
\* hasTryCatch, isDestructuredImmediately and isOptionalChaining are all false.
C18_AssumedExistsIffNoSafeguard ==
    \A i \in DOMAIN safetyAnalyses :
        LET r == safetyAnalyses[i]
        IN  IsCallSiteRecord(r) =>
                (r.assumedExists <=>
                    /\ ~r.hasNullCheck /\ ~r.hasTryCatch
                    /\ ~r.isDestructuredImmediately /\ ~r.isOptionalChaining)

\* The scan has recorded a call with no safeguard at all (assumedExists) and a call
\* whose only safeguard is an enclosing try/catch (not assumedExists).
C18_Witness ==
    /\ \E i \in DOMAIN safetyAnalyses :
          LET r == safetyAnalyses[i]
          IN  /\ IsCallSiteRecord(r)
              /\ r.hasTryCatch /\ ~r.hasNullCheck
              /\ ~r.isDestructuredImmediately /\ ~r.isOptionalChaining
              /\ ~r.assumedExists

\* The expression a call site tracks and the variable its value is bound to, read off
\* the ancestor chain; and the index at which the upward walk starts.
IsAwaited(anc) == anc[1].type = "AwaitExpression"
TrackedExpression(anc) == IF IsAwaited(anc) THEN TheAwait ELSE TheCall
WalkStart(anc) == IF IsAwaited(anc) THEN 2 ELSE 1
BoundResultName(anc) ==
    LET holder == anc[WalkStart(anc)]
    IN  IF /\ holder.type = "VariableDeclarator"
           /\ holder.init = TrackedExpression(anc)
           /\ holder.id.type = "Identifier"
        THEN holder.id.name
        ELSE ""

IsTracked(e, anc) ==
    \/ e = TrackedExpression(anc)
    \/ BoundResultName(anc) # "" /\ e = Ident(BoundResultName(anc))

EqualityOperators == { "==", "!=", "===", "!==" }

\* The four guard forms of a test expression.
IsGuardTest(tn, anc) ==
    \/ /\ tn.type = "BinaryExpression"
       /\ tn.operator \in EqualityOperators
       /\ \/ IsTracked(tn.left, anc) /\ IsNullish(tn.right)
          \/ IsNullish(tn.left) /\ IsTracked(tn.right, anc)
    \/ tn.type = "UnaryExpression" /\ tn.operator = "!" /\ IsTracked(tn.left, anc)
    \/ tn.type = "LogicalExpression" /\ tn.operator = "&&" /\ IsTracked(tn.left, anc)
    \/ tn.operator = "" /\ IsTracked(Expr(tn.type, tn.name), anc)

GuardedByAncestor(anc) ==
    \/ anc[1].type \in {"OptionalMemberExpression", "OptionalCallExpression"}
    \/ \E i \in WalkStart(anc)..Len(anc) :
          /\ anc[i].type \in {"IfStatement", "ConditionalExpression"}
          /\ IsGuardTest(anc[i].test, anc)

\* C19: the record pushed for a call site has hasNullCheck true if and only if the
\* call's immediate parent is an optional member/call form, or some ancestor on the
\* upward walk is an if-statement or ternary whose test is an equality/inequality
\* comparison of the tracked expression with a null/undefined literal on either side,
\* a logical negation of the tracked expression, a logical AND whose left operand is
\* the tracked expression, or the tracked expression itself.  (A guard in a later
\* sibling statement is no ancestor: it adds nothing to the chain.)
C19_NullCheckIffGuardingAncestor ==
    [][ \A call \in ScanCalls :
            ( /\ pc = "scan_traverse"
              /\ safetyAnalyses' = VisitCall(safetyAnalyses, scanIn.file, call, scanIn.target)
              /\ Len(safetyAnalyses') = Len(safetyAnalyses) + 1 )
            => safetyAnalyses'[Len(safetyAnalyses')].hasNullCheck
                   = GuardedByAncestor(call.anc) ]_vars

\* How many times the edge e sits in a list of edges.
CountIn(edges, e) == Cardinality({ i \in DOMAIN edges : edges[i] = e })

\* How many times the files of S record the edge e, each file processed once on its own.
RECURSIVE OwnCount(_, _)
OwnCount(S, e) ==
    IF S = {} THEN 0
    ELSE LET q == CHOOSE x \in S : TRUE
         IN  CountIn(OwnGraph(q).edges, e) + OwnCount(S \ {q}, e)

\* The imports of file q that resolve to q itself or to a file that imports q back.
CyclicImports(q) ==
    { r \in DOMAIN project.files :
        /\ <<r>> \in { e.to : e \in Range(OwnGraph(q).edges) }
        /\ r = q \/ <<q>> \in { e.to : e \in Range(OwnGraph(r).edges) } }

\* parseToGraph has returned with every collected file processed exactly once.
ProcessedOnce ==
    /\ processedFiles = DOMAIN project.files
    /\ graph.metadata.total_files = Cardinality(DOMAIN project.files)
    /\ \A q \in DOMAIN project.files :
          Range(OwnGraph(q).edges) \subseteq Range(graph.edges)
    /\ \A e \in Range(graph.edges) :
          CountIn(graph.edges, e) = OwnCount(DOMAIN project.files, e)

\* What the call processFile(f) of the top-level loop returns in the current state.
ProcessNext(f) ==
    processFile([nodes |-> graph.nodes, keys |-> graph.keys, edges |-> graph.edges,
                 metadata |-> graph.metadata, processed |-> processedFiles],
                f, project.files, project.mode)

\* C20: in FULL mode every call processFile(f) of the top-level loop returns, also on
\* cyclic imports, having processed f and only collected files, so that the loop over
\* the collected files ends; and every collected file is then processed exactly once:
\* total_files is the number of collected files and each file's edges are recorded
\* once, not once per importer.
C20_FullModeProcessesOnce ==
    project.mode = "FULL" =>
        /\ pc = "parse_loop" =>
              \A f \in remaining :
                  /\ processedFiles \cup {f} \subseteq ProcessNext(f).processed
                  /\ ProcessNext(f).processed \subseteq DOMAIN project.files
        /\ pc = "parse_done" => ProcessedOnce

\* parseToGraph has returned in FULL mode for a project in which a.js imports itself
\* and b.js, and b.js imports a.js back.
C20_Witness ==
    /\ pc = "parse_done"
    /\ project.mode = "FULL"
    /\ {"a.js", "b.js"} \subseteq DOMAIN project.files
    /\ CyclicImports("a.js") = {"a.js", "b.js"}
    /\ CyclicImports("b.js") = {"a.js"}

\* The ids at forward distance at most k from the Module nodes, over every edge.
RECURSIVE ForwardWithin(_)
ForwardWithin(k) ==
    IF k = 0 THEN ModuleNodeIds
    ELSE LET S == ForwardWithin(k - 1)
         IN  S \cup { graph.edges[i].to : i \in { j \in DOMAIN graph.edges : graph.edges[j].from \in S } }

ForwardReachable == ForwardWithin(Len(graph.edges))

\* The forward distance of a reachable id from the set of Module nodes.
ForwardDistance(n) ==
    CHOOSE k \in 0..Len(graph.edges) :
        n \in ForwardWithin(k) /\ \A j \in 0..(k - 1) : n \notin ForwardWithin(j)

LargestDistance ==
    CHOOSE d \in 0..Len(graph.edges) :
        /\ \A n \in ForwardReachable : ForwardDistance(n) <= d
        /\ ForwardReachable # {} => \E n \in ForwardReachable : ForwardDistance(n) = d
        /\ ForwardReachable = {} => d = 0

\* C21: after parseToGraph, max_depth_detected is the largest breadth-first distance
\* reached from the set of all Module nodes following every edge forward,
\* indirect_nodes_found is the number of ids first visited at depth greater than 1, and
\* analysis_limit_reached is true if and only if the mode is FAST and
\* max_depth_detected is exactly 1.
C21_PostPassMetrics ==
    pc = "parse_done" =>
        /\ graph.metadata.max_depth_detected = LargestDistance
        /\ graph.metadata.indirect_nodes_found
              = Cardinality({ n \in ForwardReachable : ForwardDistance(n) > 1 })
        /\ graph.metadata.analysis_limit_reached
              <=> (project.mode = "FAST" /\ graph.metadata.max_depth_detected = 1)

\* parseToGraph has returned a graph with ids at depth 2 (callee names) in FAST mode.
C21_Witness ==
    /\ pc = "parse_done"
    /\ project.mode = "FAST"
    /\ graph.metadata.max_depth_detected = 2
    /\ graph.metadata.indirect_nodes_found >= 2
    /\ ~graph.metadata.analysis_limit_reached

ResolvedKinds == { "import", "re_export", "barrel_export" }
ExternalKinds == { "import_external", "re_export_external", "barrel_export_external" }

IsImportEdge(e) == e.type = "dependency" /\ e.kind \in ResolvedKinds \cup ExternalKinds

\* The import statements and re-exports with a source of a file, in source order.
ImportsOf(q) == SelectSeq(project.files[q].items, LAMBDA it : it.t = "import")

\* The edge one import statement of file q is to yield.
ExpectedImportEdge(q, imp) ==
    LET resolved == resolveImportPath(q, imp.source, DOMAIN project.files)
    IN  IF resolved # ""
        THEN [from |-> <<q>>, to |-> <<resolved>>, type |-> "dependency", kind |-> imp.kind]
        ELSE [from |-> <<q>>, to |-> <<imp.source>>, type |-> "dependency",
              kind |-> CASE imp.kind = "import" -> "import_external"
                         [] imp.kind = "re_export" -> "re_export_external"
                         [] OTHER -> "barrel_export_external"]

\* The import-family edges recorded for file q, in the order of graph.edges.
ImportEdgesOf(q) == SelectSeq(graph.edges, LAMBDA e : IsImportEdge(e) /\ e.from = <<q>>)

\* C22: every processed import statement, named re-export with a source and wildcard
\* re-export adds one to total_imports and exactly one dependency edge from the
\* importer's module id, to the resolved file with kind import / re_export /
\* barrel_export (adding one to resolved_imports), or else to the raw specifier with
\* the kind suffixed _external; so resolved_imports <= total_imports and the number of
\* import-family edges is total_imports.
C22_ImportEdgeAccounting ==
    /\ graph.metadata.resolved_imports <= graph.metadata.total_imports
    /\ Cardinality({ i \in DOMAIN graph.edges : IsImportEdge(graph.edges[i]) })
          = graph.metadata.total_imports
    /\ Cardinality({ i \in DOMAIN graph.edges :
                        IsImportEdge(graph.edges[i]) /\ graph.edges[i].kind \in ResolvedKinds })
          = graph.metadata.resolved_imports
    /\ pc = "parse_done" =>
          \A q \in ValidFiles :
              /\ Len(ImportEdgesOf(q)) = Len(ImportsOf(q))
              /\ \A i \in DOMAIN ImportsOf(q) :
                    ImportEdgesOf(q)[i] = ExpectedImportEdge(q, ImportsOf(q)[i])

\* parseToGraph has returned a graph with a resolved and an unresolved import.
C22_Witness ==
    /\ pc = "parse_done"
    /\ graph.metadata.resolved_imports >= 1
    /\ graph.metadata.total_imports > graph.metadata.resolved_imports
    /\ \E i \in DOMAIN graph.edges : graph.edges[i].kind = "re_export_external"
    /\ \E i \in DOMAIN graph.edges : graph.edges[i].kind = "barrel_export"

FunctionNodeIds == { k \in DOMAIN graph.nodes : graph.nodes[k].type \in {"function", "api"} }

StructuralEdgesTo(id) ==
    { i \in DOMAIN graph.edges : graph.edges[i].type = "structural" /\ graph.edges[i].to = id }

\* C23: in the graph parseToGraph returns each Function/API node has exactly one
\* structural edge pointing to it, whose from is the Module node of the node's
\* declaring file, and every structural edge points to a Function/API node of the graph.
C23_OneStructuralEdgePerNode ==
    pc = "parse_done" =>
        /\ \A id \in FunctionNodeIds :
              /\ Cardinality(StructuralEdgesTo(id)) = 1
              /\ \A i \in StructuralEdgesTo(id) :
                    /\ graph.edges[i].from = << graph.nodes[id].file >>
                    /\ graph.edges[i].from \in ModuleNodeIds
        /\ \A i \in DOMAIN graph.edges :
              graph.edges[i].type = "structural" => graph.edges[i].to \in FunctionNodeIds

\* The Function nodes f + "::" + n of the graph.
QualifiedFunctionIds ==
    { k \in DOMAIN graph.nodes : graph.nodes[k].type = "function" /\ Len(k) = 2 }

\* No dependency edge names a full function id as its `to`.
NoEdgeToFullFunctionId ==
    \A i \in DOMAIN graph.edges :
        graph.edges[i].type = "dependency" => graph.edges[i].to \notin QualifiedFunctionIds

IdsOf(list) == { list[i].id : i \in DOMAIN list }
RecordOf(list, id) == list[CHOOSE i \in DOMAIN list : list[i].id = id]
PassesThrough(r, ids) == \E j \in 1..(Len(r.chain) - 1) : r.chain[j] \in ids

IsChainOfDiscoverer(c, i) ==
    LET d == c[Len(c)]
    IN  \/ d = targetId /\ c = <<targetId>>
        \/ \E k \in 1..(i - 1) : impacts[k].id = d /\ impacts[k].chain = c

\* C25: the chain of every Impact record r holds exactly r.depth + 1 ids, starts with
\* the target id, ends with r.id, is the chain of the record (or target) that
\* discovered r followed by r.id, and each of its elements is a dependent, under the
\* full-id or bare-name lookup, of the element before it.
C25_ChainWellFormed ==
    \A i \in DOMAIN impacts :
        LET r == impacts[i]
        IN  /\ Len(r.chain) = r.depth + 1
            /\ r.chain[1] = targetId
            /\ r.chain[Len(r.chain)] = r.id
            /\ IsChainOfDiscoverer(SubSeq(r.chain, 1, Len(r.chain) - 1), i)
            /\ \A j \in 1..(Len(r.chain) - 1) : DependentStep(r.chain[j], r.chain[j + 1])

\* calculateBlastRadius has returned a record found at depth 3 through two other records.
C25_Witness ==
    /\ pc = "br_done"
    /\ \E i \in DOMAIN impacts : impacts[i].depth = 3 /\ Len(impacts[i].chain) = 4

IsCallEdge(e) == e.type = "dependency" /\ e.kind = "call"

\* How many call expressions with the simple callee name c lie in items, at any depth.
RECURSIVE CountCalls(_, _)
CountCalls(items, c) ==
    IF items = <<>> THEN 0
    ELSE LET it == Head(items)
         IN  (IF it.t = "call" THEN (IF it.callee = c THEN 1 ELSE 0)
              ELSE IF it.t = "fn" THEN CountCalls(it.body, c)
              ELSE 0)
             + CountCalls(Tail(items), c)

\* How many calls of c lie inside the function-like constructs of items (of file q, at
\* any depth) that are recorded under the node id; a call inside a nested construct
\* counts for each enclosing construct recorded under the id.
RECURSIVE CallsAttributed(_, _, _, _)
CallsAttributed(items, q, id, c) ==
    IF items = <<>> THEN 0
    ELSE LET it == Head(items)
         IN  (IF it.t = "fn"
              THEN (IF FnNodeId(it, q) = id THEN CountCalls(it.body, c) ELSE 0)
                   + CallsAttributed(it.body, q, id, c)
              ELSE 0)
             + CallsAttributed(Tail(items), q, id, c)

RECURSIVE CallsAttributedIn(_, _, _)
CallsAttributedIn(S, id, c) ==
    IF S = {} THEN 0
    ELSE LET q == CHOOSE x \in S : TRUE
         IN  CallsAttributed(project.files[q].items, q, id, c)
             + CallsAttributedIn(S \ {q}, id, c)

\* The simple callee names of the model's files and of the graph's call edges.
CalleeNames ==
    { "foo", "bar", "run" }
    \cup { graph.edges[i].to[1] : i \in { j \in DOMAIN graph.edges : IsCallEdge(graph.edges[j]) } }

\* C26: every call-kind dependency edge of the built graph goes from the id of a
\* Function/API node of the graph to a bare callee name that is no node id; and each
\* call expression with a simple callee name anywhere inside the body of a named
\* function F, functions nested in F included, yields one call edge from F's id, so a
\* call inside a nested named function G is attributed to both G and F.
C26_CallEdgeAttribution ==
    pc = "parse_done" =>
        /\ \A i \in DOMAIN graph.edges :
              IsCallEdge(graph.edges[i]) =>
                  /\ graph.edges[i].from \in FunctionNodeIds
                  /\ Len(graph.edges[i].to) = 1
                  /\ graph.edges[i].to \notin DOMAIN graph.nodes
        /\ \A id \in FunctionNodeIds : \A c \in CalleeNames :
              Cardinality({ i \in DOMAIN graph.edges :
                              /\ IsCallEdge(graph.edges[i])
                              /\ graph.edges[i].from = id
                              /\ graph.edges[i].to = <<c>> })
                  = CallsAttributedIn(ValidFiles, id, c)

\* parseToGraph has returned for a project whose +page.js holds bar() inside helper,
\* nested in get: the call is recorded for both.
C26_Witness ==
    /\ pc = "parse_done"
    /\ \E i \in DOMAIN graph.edges :
          /\ IsCallEdge(graph.edges[i])
          /\ graph.edges[i].from = <<"src/routes/users/+page.js", "helper">>
          /\ graph.edges[i].to = <<"bar">>
    /\ \E i \in DOMAIN graph.edges :
          /\ IsCallEdge(graph.edges[i])
          /\ graph.edges[i].from = <<"GET /users">>
          /\ graph.edges[i].to = <<"bar">>

\* Lines 380-431 as one call: the top-level loop over the files in the given order,
\* then the post-pass.
RECURSIVE ProcessInOrder(_, _, _, _)
ProcessInOrder(g, order, files, mode) ==
    IF order = <<>> THEN g
    ELSE ProcessInOrder(processFile(g, Head(order), files, mode), Tail(order), files, mode)

parseToGraphInOrder(files, order, mode) ==
    LET g == ProcessInOrder([nodes |-> EmptyMap, keys |-> <<>>, edges |-> <<>>,
                             metadata |-> NoMetadata, processed |-> {}],
                            order, files, mode)
    IN  [nodes |-> g.nodes, keys |-> g.keys, edges |-> g.edges,
         metadata |-> PostPassMetadata(g, mode)]

\* In FAST mode the Module nodes are inserted in the order of the top-level loop.
LoopOrder ==
    LET ks == ModuleKeys(graph.nodes, graph.keys)
    IN  [i \in DOMAIN ks |-> ks[i][1]]

SameEdgeMultiset(es1, es2) ==
    /\ Len(es1) = Len(es2)
    /\ \A e \in Range(es1) \cup Range(es2) : CountIn(es1, e) = CountIn(es2, e)

\* C27: for any project, parseToGraph in FAST mode and in FULL mode (the collected
\* files taken in the same order) produce the same nodes, the same multiset of edges
\* and the same counters; only analysis_limit_reached can differ.
C27_FastFullSameContent ==
    (pc = "parse_done" /\ project.mode = "FAST") =>
        LET full == parseToGraphInOrder(project.files, LoopOrder, "FULL")
        IN  /\ full.nodes = graph.nodes
            /\ SameEdgeMultiset(full.edges, graph.edges)
            /\ [full.metadata EXCEPT !.analysis_limit_reached = FALSE]
                  = [graph.metadata EXCEPT !.analysis_limit_reached = FALSE]

EdgeTargets(P(_)) == { graph.edges[i].to : i \in { j \in DOMAIN graph.edges : P(graph.edges[j]) } }

IsExternalImportEdge(e) == e.type = "dependency" /\ e.kind \in ExternalKinds

\* The ids an edge from a Module node points to, the Module nodes left out.
DepthOneIds == ForwardWithin(1) \ ModuleNodeIds

\* The callee names that no edge from a Module node points to.
NewCalleeNames == EdgeTargets(IsCallEdge) \ ForwardWithin(1)

\* C28: in the graph parseToGraph returns max_depth_detected is at most 2: the Module
\* nodes are at depth 0, the Function/API nodes and the external specifiers at depth 1,
\* the callee names first met through a call edge at depth 2, and no callee name or
\* external specifier is the from of an edge; so in FAST mode analysis_limit_reached
\* is true exactly when there is an id at depth 1 and no call edge brings a new name.
C28_DepthAtMostTwo ==
    pc = "parse_done" =>
        /\ graph.metadata.max_depth_detected <= 2
        /\ FunctionNodeIds \cup EdgeTargets(IsExternalImportEdge) \subseteq DepthOneIds
        /\ NewCalleeNames \subseteq ForwardWithin(2)
        /\ (EdgeTargets(IsCallEdge) \cup EdgeTargets(IsExternalImportEdge)) \cap EdgeSources = {}
        /\ project.mode = "FAST" =>
              (graph.metadata.analysis_limit_reached
                  <=> (DepthOneIds # {} /\ NewCalleeNames = {}))

\* parseToGraph has returned in FAST mode a graph with Function nodes and an external
\* specifier but no call, and the limit flag set.
C28_Witness ==
    /\ pc = "parse_done"
    /\ project.mode = "FAST"
    /\ graph.metadata.analysis_limit_reached
    /\ FunctionNodeIds # {}
    /\ EdgeTargets(IsCallEdge) = {}

\* C29: in every record of a call site scanCallerSafety produces,
\* isDestructuredImmediately and assumedExists are never both true;
\* unsafeDereferenceLikelihood is 0 when hasNullCheck is true and never exceeds 0.90,
\* and unhandledErrorProbability never exceeds 0.80.
C29_PenaltiesExclusive ==
    \A i \in DOMAIN safetyAnalyses :
        LET r == safetyAnalyses[i]
        IN  IsCallSiteRecord(r) =>
                /\ ~(r.isDestructuredImmediately /\ r.assumedExists)
                /\ r.hasNullCheck => r.unsafeDereferenceLikelihood = 0
                /\ r.unsafeDereferenceLikelihood <= 90
                /\ r.unhandledErrorProbability <= 80

\* scanCallerSafety has returned a record of an unguarded destructured call at 0.90
\* and a record of a call under a null check.
C29_Witness ==
    /\ pc = "scan_done"
    /\ \E i \in DOMAIN safetyAnalyses :
          /\ IsCallSiteRecord(safetyAnalyses[i])
          /\ safetyAnalyses[i].isDestructuredImmediately
          /\ safetyAnalyses[i].unsafeDereferenceLikelihood = 90
    /\ \E i \in DOMAIN safetyAnalyses :
          IsCallSiteRecord(safetyAnalyses[i]) /\ safetyAnalyses[i].hasNullCheck

\* The target run() resolved is an API node, its id of the shape "METHOD route".
ApiTarget ==
    /\ targetId \in DOMAIN graph.nodes
    /\ graph.nodes[targetId].type = "api"
    /\ ~HasSep(targetId)

\* C30: when the target is an API node and no import edge of the graph parseToGraph
\* built points to its id, the Impact List calculateBlastRadius returns is empty,
\* whatever functions call the handler by its name.
C30_ApiTargetHasNoDependents ==
    (pc = "br_done" /\ ApiTarget /\ targetId \notin EdgeTargets(IsImportEdge)) =>
        impacts = <<>>

\* calculateBlastRadius has returned for an API target whose handler name another
\* function calls.
C30_Witness ==
    /\ pc = "br_done"
    /\ ApiTarget
    /\ targetId \notin EdgeTargets(IsImportEdge)
    /\ \E i \in DOMAIN graph.edges :
          /\ IsCallEdge(graph.edges[i])
          /\ graph.edges[i].to = << graph.nodes[targetId].name >>
          /\ graph.edges[i].from # targetId
    /\ impacts = <<>>

====
